---- MODULE Spec2Model ----
(***************************************************************************)
(* Traffic-Management-System: the simulation engine of TrafficNetwork      *)
(* (src/src/traffic_network.cpp), its data model                            *)
(* (src/src/data_structures.{h,cpp}) and the TrafficValidator               *)
(* (src/src/traffic_validator.cpp).                                         *)
(*                                                                         *)
(* Node indices are the C++ indices 0..n-1.  A std::queue<Vehicle> is a    *)
(* sequence, a std::priority_queue<Vehicle> is the set of its elements     *)
(* (vehicle ids are unique) whose top() is any element that is maximal     *)
(* for Vehicle::operator<.  Display output, Vehicle::path, start_time and  *)
(* NodeData::type / node_char / last_token_time take no part in the        *)
(* engine's decisions and are left out.                                    *)
(***************************************************************************)
EXTENDS Integers, Sequences, FiniteSets, TLC

VARIABLES
    nodes,               \* vector<NodeData> nodes
    adjacency_matrix,    \* vector<vector<int>> adjacency_matrix
    destinations,        \* unordered_map<int,int> destinations
    stats,               \* SystemStats stats
    next_vehicle_id,     \* atomic<int> next_vehicle_id
    mode,                \* config.mode
    simulation_running,  \* atomic<bool> simulation_running
    shutdown_requested,  \* atomic<bool> shutdown_requested
    pc,                  \* where the driving thread / coordinating loop stands
    sweep_i,             \* loop index i of the sweep in token_allocation_loop
    events,              \* what the last handler did, one record per extracted vehicle
    enqueue_order,       \* per node: Regular vehicle ids in the order they arrived there
    loaded_within_capacity, \* whether the loaded network had current_vehicles <= capacity everywhere
    call,                \* a call of a pure function: its arguments and its result
    wake_signal,         \* a notification of cv_token_allocation the waiting coordinator has not acted on yet
    denied_in_a_row,     \* per vehicle id: the admission denials since its last move
    global_coordinator_mutex, \* mutex global_coordinator_mutex: the body that owns it, or "free"
    thread_pool,         \* ThreadPool: tasks not taken yet, and the bodies its threads are running
    futures_ready,       \* the bodies that have returned: their futures are ready
    active_threads,      \* atomic<int> active_threads
    future_idx           \* run_automatic_simulation: the future its last for loop waits for

vars == <<nodes, adjacency_matrix, destinations, stats, next_vehicle_id, mode, simulation_running,
          shutdown_requested, pc, sweep_i, events, enqueue_order,
          loaded_within_capacity, call, wake_signal, denied_in_a_row,
          global_coordinator_mutex, thread_pool, futures_ready, active_threads, future_idx>>

(***************************************************************************)
(* Bounds of the model                                                     *)
(***************************************************************************)
NumNodes == 3
MaxCapacity == 2
MaxVehicles == 3
MaxMoves == 4
MaxPerClass == 2
MaxDenials == 6

(***************************************************************************)
(* Program constants                                                       *)
(***************************************************************************)
REGULAR == 0
FIRE_TRUCK == 1
AMBULANCE == 2
max_steps == 50
NoPath == -1
thread_pool_threads == 4
reroute_threshold == 5

VehicleTypes == {REGULAR, FIRE_TRUCK, AMBULANCE}

Min(a, b) == IF a < b THEN a ELSE b
Max(a, b) == IF a > b THEN a ELSE b

(***************************************************************************)
(* Data model                                                              *)
(***************************************************************************)
\* Vehicle::Vehicle(id, t, src, dest); now is steady_clock::now()
Vehicle(id, t, src, dest, now) ==
    [vehicle_id |-> id, type |-> t, source_node |-> src, destination_node |-> dest,
     current_node |-> src, arrival_time |-> now, blocked_attempts |-> 0]

\* Vehicle::operator< with the arrival times compared the other way round
VehicleLess_newest_first(a, b) ==
    IF a.type # b.type THEN a.type < b.type
    ELSE a.arrival_time < b.arrival_time

\* Vehicle::operator< : a < b
VehicleLess(a, b) ==
    IF a.type # b.type THEN a.type < b.type
    ELSE a.arrival_time > b.arrival_time

\* NodeData::NodeData(id, c, t, cap)
NodeData(id, cap) ==
    [node_id |-> id, capacity |-> cap, current_vehicles |-> 0,
     waiting_queue |-> <<>>, emergency_queue |-> {}, adjacent_nodes |-> <<>>]

\* NodeData::has_emergency_vehicles
has_emergency_vehicles(node) == node.emergency_queue # {}

\* NodeData::get_queue_size
get_queue_size(node) == Len(node.waiting_queue) + Cardinality(node.emergency_queue)

\* priority_queue<Vehicle>::top : the candidates, every element no other element is greater than
emergency_top(q) == {v \in q : \A o \in q : ~VehicleLess(v, o)}

\* SystemStats::SystemStats
SystemStats ==
    [total_vehicles_processed |-> 0, emergency_vehicles_processed |-> 0,
     successful_routes |-> 0, rerouting_attempts |-> 0, total_moves |-> 0,
     step_count |-> 0]

nodes_size(ns) == Cardinality(DOMAIN ns)


(***************************************************************************)
(* Router                                                                  *)
(***************************************************************************)
\* the for loop over nodes[curr].adjacent_nodes inside the BFS of find_best_next_hop
RECURSIVE bfs_neighbors(_, _, _, _, _)
bfs_neighbors(nbrs, curr, q, visited, parent) ==
    IF nbrs = <<>> THEN [q |-> q, visited |-> visited, parent |-> parent]
    ELSE LET neighbor == Head(nbrs) IN
         IF neighbor \notin visited
         THEN bfs_neighbors(Tail(nbrs), curr, Append(q, neighbor),
                            visited \cup {neighbor}, [parent EXCEPT ![neighbor] = curr])
         ELSE bfs_neighbors(Tail(nbrs), curr, q, visited, parent)

\* the walk back along the parents left out: the node the search ended at is returned
bfs_first_hop_no_walk(next, parent, from_node) == next

\* while (parent[next] != from_node && parent[next] != -1) next = parent[next];
RECURSIVE bfs_first_hop(_, _, _)
bfs_first_hop(next, parent, from_node) ==
    IF parent[next] # from_node /\ parent[next] # -1
    THEN bfs_first_hop(parent[next], parent, from_node)
    ELSE next

\* the BFS of find_best_next_hop failing, instead of falling back, when the queue runs empty
RECURSIVE bfs_loop_no_fallback(_, _, _, _, _, _)
bfs_loop_no_fallback(ns, q, visited, parent, from_node, destination) ==
    IF q = <<>> THEN NoPath
    ELSE LET curr == Head(q) IN
         IF curr = destination THEN bfs_first_hop(destination, parent, from_node)
         ELSE LET r == bfs_neighbors(ns[curr].adjacent_nodes, curr, Tail(q), visited, parent)
              IN bfs_loop_no_fallback(ns, r.q, r.visited, r.parent, from_node, destination)

\* while (!q.empty()) of find_best_next_hop; the fallback when the queue runs empty
RECURSIVE bfs_loop(_, _, _, _, _, _)
bfs_loop(ns, q, visited, parent, from_node, destination) ==
    IF q = <<>> THEN ns[from_node].adjacent_nodes[1]
    ELSE LET curr == Head(q) IN
         IF curr = destination THEN bfs_first_hop(destination, parent, from_node)
         ELSE LET r == bfs_neighbors(ns[curr].adjacent_nodes, curr, Tail(q), visited, parent)
              IN bfs_loop(ns, r.q, r.visited, r.parent, from_node, destination)

\* find_best_next_hop without its search: the first entry of the adjacency list
find_best_next_hop_first_adjacent(ns, from_node, destination) ==
    IF from_node \notin DOMAIN ns THEN NoPath
    ELSE IF ns[from_node].adjacent_nodes = <<>> THEN NoPath
    ELSE ns[from_node].adjacent_nodes[1]

\* TrafficNetwork::find_best_next_hop, on the node collection ns
find_best_next_hop(ns, from_node, destination) ==
    IF from_node \notin DOMAIN ns THEN NoPath
    ELSE LET adjacent == ns[from_node].adjacent_nodes IN
         IF adjacent = <<>> THEN NoPath
         ELSE IF \E k \in 1..Len(adjacent) : adjacent[k] = destination THEN destination
         ELSE bfs_loop(ns, <<from_node>>, {from_node}, [n \in DOMAIN ns |-> -1],
                       from_node, destination)

(***************************************************************************)
(* Admission controller                                                    *)
(***************************************************************************)
\* can_move_to_node_safe with <= in place of <
can_move_to_node_safe_inclusive(ns, node_idx, vehicle_type) ==
    IF node_idx < 0 \/ node_idx >= nodes_size(ns) THEN FALSE
    ELSE LET max_allowed == IF vehicle_type # REGULAR
                            THEN ns[node_idx].capacity + 1
                            ELSE ns[node_idx].capacity
         IN ns[node_idx].current_vehicles <= max_allowed

\* can_move_to_node_safe without the extra slot for emergency vehicles
can_move_to_node_safe_no_overflow(ns, node_idx, vehicle_type) ==
    IF node_idx < 0 \/ node_idx >= nodes_size(ns) THEN FALSE
    ELSE ns[node_idx].current_vehicles < ns[node_idx].capacity

\* TrafficNetwork::can_move_to_node_safe, on the node collection ns
can_move_to_node_safe(ns, node_idx, vehicle_type) ==
    IF node_idx < 0 \/ node_idx >= nodes_size(ns) THEN FALSE
    ELSE LET max_allowed == IF vehicle_type # REGULAR
                            THEN ns[node_idx].capacity + 1
                            ELSE ns[node_idx].capacity
         IN ns[node_idx].current_vehicles < max_allowed

(***************************************************************************)
(* Vehicle movement                                                        *)
(***************************************************************************)
\* queue<Vehicle>::push / priority_queue<Vehicle>::push of the vehicle's class
push_by_type(node, vehicle) ==
    IF vehicle.type = REGULAR
    THEN [node EXCEPT !.waiting_queue = Append(@, vehicle)]
    ELSE [node EXCEPT !.emergency_queue = @ \cup {vehicle}]

\* return_vehicle_to_queue without its is_emergency test
return_vehicle_to_queue_waiting_only(ns, vehicle, node_idx, is_emergency) ==
    [ns EXCEPT ![node_idx].waiting_queue = Append(@, vehicle)]

\* TrafficNetwork::return_vehicle_to_queue
return_vehicle_to_queue(ns, vehicle, node_idx, is_emergency) ==
    IF is_emergency
    THEN [ns EXCEPT ![node_idx].emergency_queue = @ \cup {vehicle}]
    ELSE [ns EXCEPT ![node_idx].waiting_queue = Append(@, vehicle)]

\* the statistics of a completed trip, successful_routes counted for Regular vehicles only
record_completed_trip_regular_routes(st, vehicle) ==
    IF vehicle.type = REGULAR
    THEN [st EXCEPT !.total_vehicles_processed = @ + 1, !.successful_routes = @ + 1]
    ELSE [st EXCEPT !.emergency_vehicles_processed = @ + 1]

\* the statistics of a completed trip
record_completed_trip(st, vehicle) ==
    IF vehicle.type = REGULAR
    THEN [st EXCEPT !.total_vehicles_processed = @ + 1, !.successful_routes = @ + 1]
    ELSE [st EXCEPT !.emergency_vehicles_processed = @ + 1, !.successful_routes = @ + 1]

\* "Remove from source": if (current_vehicles > 0) current_vehicles--
remove_from_source(ns, from_node) ==
    IF ns[from_node].current_vehicles > 0
    THEN [ns EXCEPT ![from_node].current_vehicles = @ - 1]
    ELSE ns

\* perform_vehicle_move_with_display counting the vehicle at its destination node
perform_vehicle_move_with_display_counting_arrival(ns, st, vehicle, from_node, to_node) ==
    LET ns1 == remove_from_source(ns, from_node)
        moved == [vehicle EXCEPT !.current_node = to_node]
        st1 == [st EXCEPT !.total_moves = @ + 1]
    IN IF to_node = vehicle.destination_node
       THEN [nodes |-> [ns1 EXCEPT ![to_node].current_vehicles = @ + 1],
             stats |-> record_completed_trip(st1, vehicle), outcome |-> "completed"]
       ELSE [nodes |-> [ns1 EXCEPT ![to_node] =
                           push_by_type([@ EXCEPT !.current_vehicles = @ + 1], moved)],
             stats |-> st1, outcome |-> "moved"]

\* TrafficNetwork::perform_vehicle_move_with_display (step mode)
perform_vehicle_move_with_display(ns, st, vehicle, from_node, to_node) ==
    LET ns1 == remove_from_source(ns, from_node)
        moved == [vehicle EXCEPT !.current_node = to_node]
        st1 == [st EXCEPT !.total_moves = @ + 1]
    IN IF to_node = vehicle.destination_node
       THEN [nodes |-> ns1, stats |-> record_completed_trip(st1, vehicle),
             outcome |-> "completed"]
       ELSE [nodes |-> [ns1 EXCEPT ![to_node] =
                           push_by_type([@ EXCEPT !.current_vehicles = @ + 1], moved)],
             stats |-> st1, outcome |-> "moved"]

\* perform_vehicle_move counting the vehicle at its destination node
perform_vehicle_move_counting_arrival(ns, st, vehicle, from_node, to_node) ==
    LET ns1 == remove_from_source(ns, from_node)
        moved == [vehicle EXCEPT !.current_node = to_node]
        st1 == [st EXCEPT !.total_moves = @ + 1]
    IN IF to_node = vehicle.destination_node
       THEN [nodes |-> [ns1 EXCEPT ![to_node].current_vehicles = @ + 1],
             stats |-> record_completed_trip(st1, vehicle), outcome |-> "completed"]
       ELSE [nodes |-> [ns1 EXCEPT ![to_node] =
                           push_by_type([@ EXCEPT !.current_vehicles = @ + 1], moved)],
             stats |-> st1, outcome |-> "moved"]

\* TrafficNetwork::perform_vehicle_move (automatic mode)
perform_vehicle_move(ns, st, vehicle, from_node, to_node) ==
    LET ns1 == remove_from_source(ns, from_node)
        moved == [vehicle EXCEPT !.current_node = to_node]
        st1 == [st EXCEPT !.total_moves = @ + 1]
        max_capacity == IF vehicle.type # REGULAR
                        THEN ns1[to_node].capacity + 1
                        ELSE ns1[to_node].capacity
    IN IF to_node = vehicle.destination_node
       THEN [nodes |-> ns1, stats |-> record_completed_trip(st1, vehicle),
             outcome |-> "completed"]
       ELSE IF ns1[to_node].current_vehicles < max_capacity
       THEN [nodes |-> [ns1 EXCEPT ![to_node] =
                           push_by_type([@ EXCEPT !.current_vehicles = @ + 1], moved)],
             stats |-> st1, outcome |-> "moved"]
       ELSE [nodes |-> return_vehicle_to_queue(
                           [ns1 EXCEPT ![from_node].current_vehicles = @ + 1],
                           moved, from_node, vehicle.type # REGULAR),
             stats |-> st1, outcome |-> "returned"]

\* TrafficNetwork::attempt_rerouting: the statistics; the counter reset is on the caller's copy
attempt_rerouting(st) == [st EXCEPT !.rerouting_attempts = @ + 1]


(***************************************************************************)
(* Per-vehicle processing.  A processing result is                         *)
(* [nodes, stats, moved, events]; events has one record per vehicle that   *)
(* was extracted: the node, the vehicle as extracted, the queue it came    *)
(* from, the emergency queue before the extraction, the next hop and the   *)
(* outcome.                                                                *)
(***************************************************************************)
Event(node_idx, vehicle, is_emergency, emergency_before, next_node, outcome) ==
    [node |-> node_idx, vehicle |-> vehicle, is_emergency |-> is_emergency,
     emergency_before |-> emergency_before, next_node |-> next_node,
     outcome |-> outcome]

\* process_vehicle_step_by_step with the blocked attempt counted on the vehicle that is
\* pushed back
process_vehicle_step_by_step_counting_denials(ns, st, vehicle, from_node, is_emergency) ==
    LET next_node == find_best_next_hop(ns, from_node, vehicle.destination_node) IN
    IF next_node = -1
    THEN [nodes |-> return_vehicle_to_queue(ns, vehicle, from_node, is_emergency),
          stats |-> st, moved |-> FALSE, next_node |-> next_node, outcome |-> "no_path"]
    ELSE IF can_move_to_node_safe(ns, next_node, vehicle.type)
    THEN LET r == perform_vehicle_move_with_display(ns, st, vehicle, from_node, next_node)
         IN [nodes |-> r.nodes, stats |-> r.stats, moved |-> TRUE,
             next_node |-> next_node, outcome |-> r.outcome]
    ELSE [nodes |-> return_vehicle_to_queue(
                        ns, [vehicle EXCEPT !.blocked_attempts = @ + 1],
                        from_node, is_emergency),
          stats |-> st, moved |-> FALSE, next_node |-> next_node, outcome |-> "blocked"]

\* TrafficNetwork::process_vehicle_step_by_step; ns is the nodes after the extraction
process_vehicle_step_by_step(ns, st, vehicle, from_node, is_emergency) ==
    LET next_node == find_best_next_hop(ns, from_node, vehicle.destination_node) IN
    IF next_node = -1
    THEN [nodes |-> return_vehicle_to_queue(ns, vehicle, from_node, is_emergency),
          stats |-> st, moved |-> FALSE, next_node |-> next_node, outcome |-> "no_path"]
    ELSE IF can_move_to_node_safe(ns, next_node, vehicle.type)
    THEN LET r == perform_vehicle_move_with_display(ns, st, vehicle, from_node, next_node)
         IN [nodes |-> r.nodes, stats |-> r.stats, moved |-> TRUE,
             next_node |-> next_node, outcome |-> r.outcome]
    ELSE \* the copy pushed back is made before vehicle.blocked_attempts++
         [nodes |-> return_vehicle_to_queue(ns, vehicle, from_node, is_emergency),
          stats |-> st, moved |-> FALSE, next_node |-> next_node, outcome |-> "blocked"]

\* process_single_vehicle_movement looking at the waiting queue first
process_single_vehicle_movement_waiting_first(ns, st, node_idx) ==
    IF node_idx >= nodes_size(ns)
    THEN {[nodes |-> ns, stats |-> st, moved |-> FALSE, events |-> <<>>]}
    ELSE LET node == ns[node_idx] IN
         IF node.waiting_queue # <<>>
         THEN LET vehicle == Head(node.waiting_queue)
                  r == process_vehicle_step_by_step(
                            [ns EXCEPT ![node_idx].waiting_queue = Tail(@)],
                            st, vehicle, node_idx, FALSE)
              IN {[nodes |-> r.nodes, stats |-> r.stats, moved |-> r.moved,
                   events |-> <<Event(node_idx, vehicle, FALSE, node.emergency_queue,
                                      r.next_node, r.outcome)>>]}
         ELSE IF has_emergency_vehicles(node)
         THEN {LET r == process_vehicle_step_by_step(
                            [ns EXCEPT ![node_idx].emergency_queue = @ \ {vehicle}],
                            st, vehicle, node_idx, TRUE)
               IN [nodes |-> r.nodes, stats |-> r.stats, moved |-> r.moved,
                   events |-> <<Event(node_idx, vehicle, TRUE, node.emergency_queue,
                                      r.next_node, r.outcome)>>]
               : vehicle \in emergency_top(node.emergency_queue)}
         ELSE {[nodes |-> ns, stats |-> st, moved |-> FALSE, events |-> <<>>]}

\* TrafficNetwork::process_single_vehicle_movement: the possible results
process_single_vehicle_movement(ns, st, node_idx) ==
    IF node_idx >= nodes_size(ns)
    THEN {[nodes |-> ns, stats |-> st, moved |-> FALSE, events |-> <<>>]}
    ELSE LET node == ns[node_idx] IN
         IF has_emergency_vehicles(node)
         THEN {LET r == process_vehicle_step_by_step(
                            [ns EXCEPT ![node_idx].emergency_queue = @ \ {vehicle}],
                            st, vehicle, node_idx, TRUE)
               IN [nodes |-> r.nodes, stats |-> r.stats, moved |-> r.moved,
                   events |-> <<Event(node_idx, vehicle, TRUE, node.emergency_queue,
                                      r.next_node, r.outcome)>>]
               : vehicle \in emergency_top(node.emergency_queue)}
         ELSE IF node.waiting_queue # <<>>
         THEN LET vehicle == Head(node.waiting_queue)
                  r == process_vehicle_step_by_step(
                            [ns EXCEPT ![node_idx].waiting_queue = Tail(@)],
                            st, vehicle, node_idx, FALSE)
              IN {[nodes |-> r.nodes, stats |-> r.stats, moved |-> r.moved,
                   events |-> <<Event(node_idx, vehicle, FALSE, node.emergency_queue,
                                      r.next_node, r.outcome)>>]}
         ELSE {[nodes |-> ns, stats |-> st, moved |-> FALSE, events |-> <<>>]}

\* the for loop of execute_single_step without && !movement_occurred
RECURSIVE execute_single_step_from_all_nodes(_, _, _, _)
execute_single_step_from_all_nodes(i, ns, st, evs) ==
    IF i >= nodes_size(ns)
    THEN {[nodes |-> ns, stats |-> st,
           moved |-> \E k \in 1..Len(evs) : evs[k].outcome \in {"moved", "completed"},
           events |-> evs]}
    ELSE IF get_queue_size(ns[i]) > 0
    THEN UNION {execute_single_step_from_all_nodes(i + 1, r.nodes, r.stats, evs \o r.events)
                : r \in process_single_vehicle_movement(ns, st, i)}
    ELSE execute_single_step_from_all_nodes(i + 1, ns, st, evs)

\* the for loop of execute_single_step from index i on
RECURSIVE execute_single_step_from(_, _, _, _)
execute_single_step_from(i, ns, st, evs) ==
    IF i >= nodes_size(ns)
    THEN {[nodes |-> ns, stats |-> st, moved |-> FALSE, events |-> evs]}
    ELSE IF get_queue_size(ns[i]) > 0
    THEN UNION {IF r.moved
                THEN {[nodes |-> r.nodes, stats |-> r.stats, moved |-> TRUE,
                       events |-> evs \o r.events]}
                ELSE execute_single_step_from(i + 1, r.nodes, r.stats, evs \o r.events)
                : r \in process_single_vehicle_movement(ns, st, i)}
    ELSE execute_single_step_from(i + 1, ns, st, evs)

\* TrafficNetwork::execute_single_step: the possible results
execute_single_step(ns, st) == execute_single_step_from(0, ns, st, <<>>)

\* process_vehicle with the blocked attempt counted on the vehicle that is pushed back
process_vehicle_counting_denials(ns, st, vehicle, from_node, is_emergency) ==
    LET next_node == find_best_next_hop(ns, from_node, vehicle.destination_node) IN
    IF next_node = -1
    THEN [nodes |-> return_vehicle_to_queue(ns, vehicle, from_node, is_emergency),
          stats |-> st, next_node |-> next_node, outcome |-> "no_path"]
    ELSE IF can_move_to_node_safe(ns, next_node, vehicle.type)
    THEN LET r == perform_vehicle_move(ns, st, vehicle, from_node, next_node)
         IN [nodes |-> r.nodes, stats |-> r.stats,
             next_node |-> next_node, outcome |-> r.outcome]
    ELSE LET blocked_attempts == vehicle.blocked_attempts + 1
             counted == [vehicle EXCEPT !.blocked_attempts =
                            IF blocked_attempts > reroute_threshold THEN 0
                            ELSE blocked_attempts]
         IN [nodes |-> return_vehicle_to_queue(ns, counted, from_node, is_emergency),
             stats |-> IF blocked_attempts > reroute_threshold
                       THEN attempt_rerouting(st) ELSE st,
             next_node |-> next_node, outcome |-> "blocked"]

\* TrafficNetwork::process_vehicle (automatic mode); ns is the nodes after the extraction
process_vehicle(ns, st, vehicle, from_node, is_emergency) ==
    LET next_node == find_best_next_hop(ns, from_node, vehicle.destination_node) IN
    IF next_node = -1
    THEN [nodes |-> return_vehicle_to_queue(ns, vehicle, from_node, is_emergency),
          stats |-> st, next_node |-> next_node, outcome |-> "no_path"]
    ELSE IF can_move_to_node_safe(ns, next_node, vehicle.type)
    THEN LET r == perform_vehicle_move(ns, st, vehicle, from_node, next_node)
         IN [nodes |-> r.nodes, stats |-> r.stats,
             next_node |-> next_node, outcome |-> r.outcome]
    ELSE \* the copy pushed back is made before vehicle.blocked_attempts++
         LET blocked_attempts == vehicle.blocked_attempts + 1 IN
         [nodes |-> return_vehicle_to_queue(ns, vehicle, from_node, is_emergency),
          stats |-> IF blocked_attempts > reroute_threshold THEN attempt_rerouting(st) ELSE st,
          next_node |-> next_node, outcome |-> "blocked"]

\* TrafficNetwork::process_node_vehicles: the possible results
process_node_vehicles(ns, st, node_idx) ==
    IF node_idx >= nodes_size(ns)
    THEN {[nodes |-> ns, stats |-> st, events |-> <<>>]}
    ELSE LET node == ns[node_idx] IN
         IF has_emergency_vehicles(node)
         THEN {LET r == process_vehicle(
                            [ns EXCEPT ![node_idx].emergency_queue = @ \ {vehicle}],
                            st, vehicle, node_idx, TRUE)
               IN [nodes |-> r.nodes, stats |-> r.stats,
                   events |-> <<Event(node_idx, vehicle, TRUE, node.emergency_queue,
                                      r.next_node, r.outcome)>>]
               : vehicle \in emergency_top(node.emergency_queue)}
         ELSE IF node.waiting_queue # <<>>
         THEN LET vehicle == Head(node.waiting_queue)
                  r == process_vehicle(
                            [ns EXCEPT ![node_idx].waiting_queue = Tail(@)],
                            st, vehicle, node_idx, FALSE)
              IN {[nodes |-> r.nodes, stats |-> r.stats,
                   events |-> <<Event(node_idx, vehicle, FALSE, node.emergency_queue,
                                      r.next_node, r.outcome)>>]}
         ELSE {[nodes |-> ns, stats |-> st, events |-> <<>>]}


(***************************************************************************)
(* Validator                                                               *)
(***************************************************************************)
\* the for loop of is_graph_connected over the columns of row curr, from column i on
RECURSIVE connected_row(_, _, _, _, _, _)
connected_row(adj_matrix, curr, i, st, visited, count) ==
    IF i >= Cardinality(DOMAIN adj_matrix)
    THEN [st |-> st, visited |-> visited, count |-> count]
    ELSE IF adj_matrix[curr][i] > 0 /\ i \notin visited
    THEN connected_row(adj_matrix, curr, i + 1, <<i>> \o st, visited \cup {i}, count + 1)
    ELSE connected_row(adj_matrix, curr, i + 1, st, visited, count)

\* while (!st.empty()) of is_graph_connected; st is the stack, top first
RECURSIVE connected_loop(_, _, _, _)
connected_loop(adj_matrix, st, visited, count) ==
    IF st = <<>> THEN count
    ELSE LET r == connected_row(adj_matrix, Head(st), 0, Tail(st), visited, count)
         IN connected_loop(adj_matrix, r.st, r.visited, r.count)

\* TrafficValidator::is_graph_connected
is_graph_connected(adj_matrix) ==
    LET n == Cardinality(DOMAIN adj_matrix) IN
    IF n = 0 THEN FALSE
    ELSE connected_loop(adj_matrix, <<0>>, {0}, 1) = n

\* the for loop of is_path_exists over the columns of row curr, from column i on
RECURSIVE path_row(_, _, _, _, _, _)
path_row(adj_matrix, curr, i, q, visited, dest) ==
    IF i >= Cardinality(DOMAIN adj_matrix)
    THEN [found |-> FALSE, q |-> q, visited |-> visited]
    ELSE IF adj_matrix[curr][i] > 0 /\ i \notin visited
    THEN IF i = dest THEN [found |-> TRUE, q |-> q, visited |-> visited]
         ELSE path_row(adj_matrix, curr, i + 1, Append(q, i), visited \cup {i}, dest)
    ELSE path_row(adj_matrix, curr, i + 1, q, visited, dest)

\* while (!q.empty()) of is_path_exists
RECURSIVE path_loop(_, _, _, _)
path_loop(adj_matrix, q, visited, dest) ==
    IF q = <<>> THEN FALSE
    ELSE LET r == path_row(adj_matrix, Head(q), 0, Tail(q), visited, dest)
         IN IF r.found THEN TRUE ELSE path_loop(adj_matrix, r.q, r.visited, dest)

\* TrafficValidator::is_path_exists
is_path_exists(adj_matrix, src, dest) ==
    LET n == Cardinality(DOMAIN adj_matrix) IN
    IF src < 0 \/ src >= n \/ dest < 0 \/ dest >= n THEN FALSE
    ELSE IF src = dest THEN TRUE
    ELSE path_loop(adj_matrix, <<src>>, {src}, dest)

\* TrafficValidator::are_destinations_reachable
are_destinations_reachable(adj_matrix, dests) ==
    \A src \in DOMAIN dests : is_path_exists(adj_matrix, src, dests[src])

\* validate_input with the capacity check made first
validate_input_capacity_first(adj_matrix, ns, dests) ==
    IF \E i \in DOMAIN ns : ns[i].capacity <= 0 THEN "INVALID_CAPACITY"
    ELSE IF ~is_graph_connected(adj_matrix) THEN "DISCONNECTED_GRAPH"
    ELSE IF ~are_destinations_reachable(adj_matrix, dests) THEN "UNREACHABLE_DESTINATION"
    ELSE "INPUT_VALID"

\* TrafficValidator::validate_input
validate_input(adj_matrix, ns, dests) ==
    IF ~is_graph_connected(adj_matrix) THEN "DISCONNECTED_GRAPH"
    ELSE IF ~are_destinations_reachable(adj_matrix, dests) THEN "UNREACHABLE_DESTINATION"
    ELSE IF \E i \in DOMAIN ns : ns[i].capacity <= 0 THEN "INVALID_CAPACITY"
    ELSE "INPUT_VALID"

(***************************************************************************)
(* Loader                                                                  *)
(***************************************************************************)
Nodes == 0..(NumNodes - 1)

\* "Set up adjacency lists" of apply_configuration: the j with matrix[i][j] > 0, ascending
RECURSIVE adjacency_list(_, _, _, _)
adjacency_list(matrix, i, j, n) ==
    IF j >= n THEN <<>>
    ELSE IF matrix[i][j] > 0 THEN <<j>> \o adjacency_list(matrix, i, j + 1, n)
    ELSE adjacency_list(matrix, i, j + 1, n)

\* the destination add_vehicles_to_nodes gives the vehicles created at node_idx
vehicle_destination(dests, node_idx, n) ==
    IF node_idx \in DOMAIN dests THEN dests[node_idx] ELSE (node_idx + 1) % n

\* min(traffic.at(node_char), max(1, node.capacity - 1))
regular_count(traffic, capacity) == Min(traffic, Max(1, capacity - 1))

\* the vehicles add_vehicles_to_nodes creates at one node, in creation order;
\* first_id is next_vehicle_id on entry, clock[id] is steady_clock::now() at creation
vehicles_created(node_idx, capacity, traffic, ambulances, fire_trucks, dest, first_id, clock) ==
    LET rc == Max(0, regular_count(traffic, capacity))
        ac == Max(0, ambulances)
        fc == Max(0, fire_trucks)
    IN [k \in 1..(rc + ac + fc) |->
           Vehicle(first_id + k - 1,
                   IF k <= rc THEN REGULAR ELSE IF k <= rc + ac THEN AMBULANCE ELSE FIRE_TRUCK,
                   node_idx, dest, clock[first_id + k - 1])]

\* the pushes of add_vehicles_to_nodes into one node
RECURSIVE push_created(_, _)
push_created(node, vs) ==
    IF vs = <<>> THEN node
    ELSE push_created(push_by_type([node EXCEPT !.current_vehicles = @ + 1], Head(vs)),
                      Tail(vs))

\* the for loop of add_vehicles_to_nodes from node i on; next_id is next_vehicle_id
RECURSIVE add_vehicles_to_nodes_from(_, _, _, _, _, _, _, _, _)
add_vehicles_to_nodes_from(i, ns, traffic, ambulances, fire_trucks, dests, n, next_id, clock) ==
    IF i >= n THEN ns
    ELSE LET vs == vehicles_created(i, ns[i].capacity, traffic[i], ambulances[i],
                                    fire_trucks[i], vehicle_destination(dests, i, n),
                                    next_id, clock)
         IN add_vehicles_to_nodes_from(i + 1, [ns EXCEPT ![i] = push_created(@, vs)],
                                       traffic, ambulances, fire_trucks, dests, n,
                                       next_id + Len(vs), clock)

\* TrafficNetwork::add_vehicles_to_nodes
add_vehicles_to_nodes(ns, traffic, ambulances, fire_trucks, dests, n, clock) ==
    add_vehicles_to_nodes_from(0, ns, traffic, ambulances, fire_trucks, dests, n, 1, clock)

\* TrafficNetwork::load_input with parse_config_sections and apply_configuration:
\* n nodes, the capacities section, the adjacency lists, the initial vehicles
load_input(matrix, n, capacities, traffic, ambulances, fire_trucks, dests, clock) ==
    add_vehicles_to_nodes(
        [i \in 0..(n - 1) |->
            [NodeData(i, capacities[i]) EXCEPT !.adjacent_nodes = adjacency_list(matrix, i, 0, n)]],
        traffic, ambulances, fire_trucks, dests, n, clock)


(***************************************************************************)
(* Inputs of the model                                                     *)
(***************************************************************************)
Matrices == [Nodes -> [Nodes -> {0, 1}]]

\* the ring 0 -> 1 -> ... -> n-1 -> 0 with the chord 0 -> 2
RingWithChord == [i \in Nodes |-> [j \in Nodes |->
                    IF j = (i + 1) % NumNodes \/ (i = 0 /\ j = 2) THEN 1 ELSE 0]]

\* what the configuration file asks for at one node
NodeLoads == [traffic : 0..MaxPerClass, ambulances : 0..MaxPerClass,
              fire_trucks : 0..MaxPerClass]

RECURSIVE requested_from(_, _)
requested_from(p, i) ==
    IF i >= NumNodes THEN 0
    ELSE p[i].traffic + p[i].ambulances + p[i].fire_trucks + requested_from(p, i + 1)

\* the vehicle sections of the configuration file: at most MaxVehicles vehicles
Placements == {p \in [Nodes -> NodeLoads] : requested_from(p, 0) <= MaxVehicles}

\* the nodes at which a placement creates vehicles; a destinations line for any
\* other node is never read by add_vehicles_to_nodes
occupied(p) == {i \in Nodes : p[i].traffic + p[i].ambulances + p[i].fire_trucks > 0}

\* the destinations sections that send the vehicles of every node to another node
DestinationMaps(p) == {d \in [occupied(p) -> Nodes] : \A i \in occupied(p) : d[i] # i}

\* steady_clock::now() at the creation of vehicle 1, 2, ...: a clock that has advanced
\* between any two creations, and a coarse one that has not advanced at all
Clocks == {[k \in 1..MaxVehicles |-> k], [k \in 1..MaxVehicles |-> 1]}

\* the number of vehicles queued in the network
RECURSIVE queued_from(_, _)
queued_from(ns, i) ==
    IF i >= nodes_size(ns) THEN 0 ELSE get_queue_size(ns[i]) + queued_from(ns, i + 1)

within_capacity(ns) == \A i \in DOMAIN ns : ns[i].current_vehicles <= ns[i].capacity

\* per node, the ids of the Regular vehicles in its waiting queue, front first
waiting_ids(ns) ==
    [i \in DOMAIN ns |-> [k \in 1..Len(ns[i].waiting_queue) |-> ns[i].waiting_queue[k].vehicle_id]]

NoCall == [fn |-> "none"]

\* no vehicle has been denied admission yet
NeverDenied == [id \in 1..MaxVehicles |-> 0]

\* the bodies run_automatic_simulation submits to the pool
token_allocation_loop == [fn |-> "token_allocation_loop", node_idx |-> -1]
traffic_processing_loop(i) == [fn |-> "traffic_processing_loop", node_idx |-> i]
ui_update_loop == [fn |-> "ui_update_loop", node_idx |-> -1]

\* vector<future<void>> futures of run_automatic_simulation, in the order of the enqueues
futures(ns, md) ==
    <<token_allocation_loop>>
    \o [k \in 1..nodes_size(ns) |-> traffic_processing_loop(k - 1)]
    \o (IF md = "AUTOMATIC" THEN <<ui_update_loop>> ELSE <<>>)

\* ThreadPool::ThreadPool and the members of TrafficNetwork before a run: no task, the
\* pool threads idle, the mutex free
NoThreads ==
    /\ global_coordinator_mutex = "free"
    /\ thread_pool = [tasks |-> <<>>, busy |-> {}]
    /\ futures_ready = {}
    /\ active_threads = 0
    /\ future_idx = 1

\* a placement of one Regular vehicle at node 0
SingleVehicle == [i \in Nodes |-> [traffic |-> IF i = 0 THEN 1 ELSE 0,
                                   ambulances |-> 0, fire_trucks |-> 0]]

\* a placement of one Ambulance at node 0
SingleAmbulance == [i \in Nodes |-> [traffic |-> 0,
                                     ambulances |-> IF i = 0 THEN 1 ELSE 0,
                                     fire_trucks |-> 0]]

(***************************************************************************)
(* The engine: state after TrafficNetwork::initialize                      *)
(***************************************************************************)
Loaded(m, caps, p, d, md, clock) ==
    /\ adjacency_matrix = m
    /\ destinations = d
    /\ nodes = load_input(m, NumNodes, caps, [i \in Nodes |-> p[i].traffic],
                          [i \in Nodes |-> p[i].ambulances],
                          [i \in Nodes |-> p[i].fire_trucks], d, clock)
    /\ stats = SystemStats
    /\ next_vehicle_id = 1 + queued_from(nodes, 0)
    /\ mode = md
    /\ simulation_running = FALSE
    /\ shutdown_requested = FALSE
    /\ pc = "initialized"
    /\ sweep_i = 0
    /\ events = <<>>
    /\ enqueue_order = waiting_ids(nodes)
    /\ loaded_within_capacity = within_capacity(nodes)
    /\ call = NoCall
    /\ wake_signal = FALSE
    /\ denied_in_a_row = NeverDenied
    /\ NoThreads

\* the ring with chord under every capacity section, every placement and every
\* destinations section; every adjacency matrix with one Regular vehicle or one
\* Ambulance at node 0, one capacity for all nodes and any destination, its own node
\* included
Init ==
    \E md \in {"STEP_BY_STEP", "AUTOMATIC"} :
        \/ \E caps \in [Nodes -> 1..MaxCapacity], p \in Placements, clock \in Clocks :
             \E d \in DestinationMaps(p) : Loaded(RingWithChord, caps, p, d, md, clock)
        \/ \E m \in Matrices, c \in 1..MaxCapacity, d \in [{0} -> Nodes], clock \in Clocks,
              p \in {SingleVehicle, SingleAmbulance} :
                Loaded(m, [i \in Nodes |-> c], p, d, md, clock)

(***************************************************************************)
(* The engine: run_simulation and the step-by-step driving loop            *)
(***************************************************************************)
\* the arrival order of the Regular vehicles after one extracted vehicle was processed
order_after(order, e) ==
    IF e.vehicle.type # REGULAR THEN order
    ELSE LET without == [order EXCEPT ![e.node] =
                            SelectSeq(@, LAMBDA id : id # e.vehicle.vehicle_id)]
         IN IF e.outcome = "completed" THEN without
            ELSE IF e.outcome = "moved"
            THEN [without EXCEPT ![e.next_node] = Append(@, e.vehicle.vehicle_id)]
            ELSE order

RECURSIVE order_after_all(_, _)
order_after_all(order, evs) ==
    IF evs = <<>> THEN order
    ELSE order_after_all(order_after(order, Head(evs)), Tail(evs))

\* the denials in a row of every vehicle after one extracted vehicle was processed
denials_after(denied, e) ==
    IF e.outcome \in {"blocked", "returned"}
    THEN [denied EXCEPT ![e.vehicle.vehicle_id] = Min(@ + 1, MaxDenials)]
    ELSE IF e.outcome \in {"moved", "completed"}
    THEN [denied EXCEPT ![e.vehicle.vehicle_id] = 0]
    ELSE denied

RECURSIVE denials_after_all(_, _)
denials_after_all(denied, evs) ==
    IF evs = <<>> THEN denied
    ELSE denials_after_all(denials_after(denied, Head(evs)), Tail(evs))

\* TrafficNetwork::run_simulation up to the call of the mode's simulation; in the
\* other modes run_automatic_simulation up to its sleep of 200 ms: the bodies are
\* enqueued and the pool's idle threads have taken the first of them, each body
\* starting with active_threads++
RunSimulation ==
    /\ pc = "initialized"
    /\ DOMAIN nodes # {}
    /\ simulation_running' = TRUE
    /\ pc' = IF mode = "STEP_BY_STEP" THEN "step_loop" ELSE "auto_loop"
    /\ IF mode = "STEP_BY_STEP"
       THEN UNCHANGED <<thread_pool, active_threads>>
       ELSE LET fs == futures(nodes, mode)
                started == Min(thread_pool_threads, Len(fs))
            IN /\ thread_pool' = [tasks |-> SubSeq(fs, started + 1, Len(fs)),
                                  busy |-> {fs[k] : k \in 1..started}]
               /\ active_threads' = active_threads + started
    /\ UNCHANGED <<nodes, adjacency_matrix, destinations, stats, next_vehicle_id, mode, shutdown_requested,
                   sweep_i, events, enqueue_order, loaded_within_capacity, call, wake_signal, denied_in_a_row,
                   global_coordinator_mutex, futures_ready, future_idx>>

\* one iteration of the for loop of run_step_by_step_simulation
StepByStepIteration ==
    /\ pc = "step_loop"
    /\ stats.step_count + 1 <= max_steps
    /\ ~shutdown_requested
    /\ \E r \in execute_single_step(nodes, [stats EXCEPT !.step_count = @ + 1]) :
        /\ nodes' = r.nodes
        /\ stats' = r.stats
        /\ events' = r.events
        /\ enqueue_order' = order_after_all(enqueue_order, r.events)
        /\ denied_in_a_row' = denials_after_all(denied_in_a_row, r.events)
        /\ pc' = IF r.moved THEN "step_loop" ELSE "returned"
    /\ UNCHANGED <<adjacency_matrix, destinations, next_vehicle_id, mode, simulation_running,
                   shutdown_requested, sweep_i, loaded_within_capacity, call, wake_signal, global_coordinator_mutex, thread_pool,
                   futures_ready, active_threads, future_idx>>

\* the for loop of run_step_by_step_simulation ends at max_steps
StepByStepCeiling ==
    /\ pc = "step_loop"
    /\ ~(stats.step_count + 1 <= max_steps /\ ~shutdown_requested)
    /\ pc' = "returned"
    /\ UNCHANGED <<nodes, adjacency_matrix, destinations, stats, next_vehicle_id, mode, simulation_running,
                   shutdown_requested, sweep_i, events, enqueue_order,
                   loaded_within_capacity, call, wake_signal, denied_in_a_row, global_coordinator_mutex, thread_pool,
                   futures_ready, active_threads, future_idx>>

(***************************************************************************)
(* The engine: automatic mode                                              *)
(***************************************************************************)
\* token_allocation_loop: while (!shutdown_requested) found true, the body is entered;
\* the flag is read without the mutex, before the lock of the body is taken
EnterLoopBody ==
    /\ pc = "auto_loop"
    /\ ~shutdown_requested
    /\ stats.total_moves < MaxMoves
    /\ pc' = "auto_lock"
    /\ UNCHANGED <<nodes, adjacency_matrix, destinations, stats, next_vehicle_id, mode, simulation_running,
                   shutdown_requested, sweep_i, events, enqueue_order, loaded_within_capacity, call, wake_signal,
                   denied_in_a_row, global_coordinator_mutex, thread_pool, futures_ready, active_threads, future_idx>>

\* token_allocation_loop starting a sweep without locking global_coordinator_mutex
StartSweep_without_lock ==
    /\ pc = "auto_lock"
    /\ pc' = "auto_sweep"
    /\ sweep_i' = 0
    /\ events' = <<>>
    /\ UNCHANGED <<nodes, adjacency_matrix, destinations, stats, next_vehicle_id, mode, simulation_running,
                   shutdown_requested, enqueue_order, loaded_within_capacity, call, wake_signal, denied_in_a_row,
                   global_coordinator_mutex, thread_pool, futures_ready, active_threads, future_idx>>

\* token_allocation_loop: unique_lock lock(global_coordinator_mutex), i = 0
StartSweep ==
    /\ pc = "auto_lock"
    /\ global_coordinator_mutex = "free"
    /\ global_coordinator_mutex' = "token_allocation_loop"
    /\ pc' = "auto_sweep"
    /\ sweep_i' = 0
    /\ events' = <<>>
    /\ UNCHANGED <<nodes, adjacency_matrix, destinations, stats, next_vehicle_id, mode, simulation_running,
                   shutdown_requested, enqueue_order, loaded_within_capacity, call, wake_signal, denied_in_a_row,
                   thread_pool, futures_ready, active_threads, future_idx>>

\* token_allocation_loop: one iteration of the for loop of a sweep
SweepNode ==
    /\ pc = "auto_sweep"
    /\ sweep_i < nodes_size(nodes)
    /\ IF get_queue_size(nodes[sweep_i]) > 0
       THEN \E r \in process_node_vehicles(nodes, stats, sweep_i) :
               /\ nodes' = r.nodes
               /\ stats' = r.stats
               /\ events' = r.events
               /\ enqueue_order' = order_after_all(enqueue_order, r.events)
               /\ denied_in_a_row' = denials_after_all(denied_in_a_row, r.events)
       ELSE /\ events' = <<>>
            /\ UNCHANGED <<nodes, stats, enqueue_order, denied_in_a_row>>
    /\ sweep_i' = sweep_i + 1
    /\ UNCHANGED <<adjacency_matrix, destinations, next_vehicle_id, mode, simulation_running,
                   shutdown_requested, pc, loaded_within_capacity, call, wake_signal, global_coordinator_mutex, thread_pool,
                   futures_ready, active_threads, future_idx>>

\* the for loop of the sweep left after its first node
EndSweep_after_first_node ==
    /\ pc = "auto_sweep"
    /\ sweep_i >= 1
    /\ pc' = IF shutdown_requested THEN "auto_loop" ELSE "auto_wait"
    /\ wake_signal' = FALSE
    /\ global_coordinator_mutex' = "free"
    /\ UNCHANGED <<nodes, adjacency_matrix, destinations, stats, next_vehicle_id, mode, simulation_running,
                   shutdown_requested, sweep_i, events, enqueue_order,
                   loaded_within_capacity, call, denied_in_a_row,
                   thread_pool, futures_ready, active_threads, future_idx>>

\* token_allocation_loop: the sweep is over, cv_token_allocation.wait_for is entered:
\* the predicate is evaluated first; when it is false the wait begins and releases the
\* mutex, when it is true wait_for returns and the lock goes out of scope
EndSweep ==
    /\ pc = "auto_sweep"
    /\ sweep_i >= nodes_size(nodes)
    /\ pc' = IF shutdown_requested THEN "auto_loop" ELSE "auto_wait"
    /\ wake_signal' = FALSE
    /\ global_coordinator_mutex' = "free"
    /\ UNCHANGED <<nodes, adjacency_matrix, destinations, stats, next_vehicle_id, mode, simulation_running,
                   shutdown_requested, sweep_i, events, enqueue_order,
                   loaded_within_capacity, call, denied_in_a_row,
                   thread_pool, futures_ready, active_threads, future_idx>>

\* traffic_processing_loop(node_idx), run by a pool thread: the node's queue is not
\* empty, notify_one
WorkerNotify ==
    /\ pc = "auto_wait"
    /\ ~shutdown_requested
    /\ ~wake_signal
    /\ \E node_idx \in DOMAIN nodes :
          /\ traffic_processing_loop(node_idx) \in thread_pool.busy
          /\ get_queue_size(nodes[node_idx]) > 0
    /\ wake_signal' = TRUE
    /\ UNCHANGED <<nodes, adjacency_matrix, destinations, stats, next_vehicle_id, mode, simulation_running,
                   shutdown_requested, pc, sweep_i, events, enqueue_order,
                   loaded_within_capacity, call, denied_in_a_row, global_coordinator_mutex, thread_pool,
                   futures_ready, active_threads, future_idx>>

\* cv_token_allocation.wait_for woken by a notification: it returns when its predicate
\* shutdown_requested.load() holds and goes on waiting for the rest of the period otherwise
CoordinatorWake ==
    /\ pc = "auto_wait"
    /\ wake_signal
    /\ wake_signal' = FALSE
    /\ pc' = IF shutdown_requested THEN "auto_loop" ELSE "auto_wait"
    /\ UNCHANGED <<nodes, adjacency_matrix, destinations, stats, next_vehicle_id, mode, simulation_running,
                   shutdown_requested, sweep_i, events, enqueue_order,
                   loaded_within_capacity, call, denied_in_a_row, global_coordinator_mutex, thread_pool,
                   futures_ready, active_threads, future_idx>>

\* cv_token_allocation.wait in place of wait_for: no period ends the wait
TokenCycleNeverElapses ==
    /\ pc = "auto_wait"
    /\ FALSE
    /\ UNCHANGED vars

\* cv_token_allocation.wait_for: config.token_cycle_duration has elapsed
TokenCycleElapsed ==
    /\ pc = "auto_wait"
    /\ pc' = "auto_loop"
    /\ wake_signal' = FALSE
    /\ UNCHANGED <<nodes, adjacency_matrix, destinations, stats, next_vehicle_id, mode, simulation_running,
                   shutdown_requested, sweep_i, events, enqueue_order,
                   loaded_within_capacity, call, denied_in_a_row, global_coordinator_mutex, thread_pool,
                   futures_ready, active_threads, future_idx>>

\* a body has returned: its pool thread is idle again and its future is ready
returned_from(pool, body) == [pool EXCEPT !.busy = @ \ {body}]

\* token_allocation_loop leaves its while loop: active_threads--, return
CoordinatorExit ==
    /\ pc = "auto_loop"
    /\ shutdown_requested
    /\ pc' = "auto_exited"
    /\ thread_pool' = returned_from(thread_pool, token_allocation_loop)
    /\ futures_ready' = futures_ready \cup {token_allocation_loop}
    /\ active_threads' = active_threads - 1
    /\ UNCHANGED <<nodes, adjacency_matrix, destinations, stats, next_vehicle_id, mode, simulation_running,
                   shutdown_requested, sweep_i, events, enqueue_order,
                   loaded_within_capacity, call, wake_signal, denied_in_a_row,
                   global_coordinator_mutex, future_idx>>

\* run_automatic_simulation: the simulation time has elapsed, shutdown_requested = true,
\* cv_token_allocation.notify_all(); the flag is set without the mutex, so that the
\* notification is lost when the coordinating loop has evaluated the predicate of its
\* wait and is not blocked yet
RaiseShutdown ==
    /\ mode # "STEP_BY_STEP"
    /\ simulation_running
    /\ ~shutdown_requested
    /\ shutdown_requested' = TRUE
    /\ wake_signal' \in (IF pc = "auto_wait" THEN {TRUE, FALSE} ELSE {FALSE})
    /\ UNCHANGED <<nodes, adjacency_matrix, destinations, stats, next_vehicle_id, mode, simulation_running,
                   pc, sweep_i, events, enqueue_order, loaded_within_capacity, call, denied_in_a_row, global_coordinator_mutex, thread_pool,
                   futures_ready, active_threads, future_idx>>

\* run_automatic_simulation: the futures are ready, simulation_running = false
AutomaticStopped ==
    /\ pc = "auto_exited"
    /\ simulation_running' = FALSE
    /\ pc' = "returned"
    /\ UNCHANGED <<nodes, adjacency_matrix, destinations, stats, next_vehicle_id, mode, shutdown_requested,
                   sweep_i, events, enqueue_order, loaded_within_capacity, call, wake_signal, denied_in_a_row, global_coordinator_mutex, thread_pool,
                   futures_ready, active_threads, future_idx>>

Next ==
    \/ RunSimulation
    \/ StepByStepIteration
    \/ StepByStepCeiling
    \/ EnterLoopBody
    \/ StartSweep
    \/ SweepNode
    \/ EndSweep
    \/ WorkerNotify
    \/ CoordinatorWake
    \/ TokenCycleElapsed
    \/ CoordinatorExit
    \/ RaiseShutdown
    \/ AutomaticStopped

Spec == Init /\ [][Next]_vars

(***************************************************************************)
(* Automatic and fast-run mode with the thread pool, the worker bodies and *)
(* the end of run_automatic_simulation                                     *)
(***************************************************************************)
\* one Regular vehicle at every node
OnePerNode == [i \in Nodes |-> [traffic |-> 1, ambulances |-> 0, fire_trucks |-> 0]]

\* one FireTruck at node 0 and one Regular vehicle at node 2
TruckAndCar == [i \in Nodes |-> [traffic |-> IF i = 2 THEN 1 ELSE 0, ambulances |-> 0,
                                  fire_trucks |-> IF i = 0 THEN 1 ELSE 0]]

\* the ring with chord in the two modes of run_automatic_simulation, one capacity for
\* all nodes, vehicles at one, two or all nodes
InitThreads ==
    \E md \in {"AUTOMATIC", "FAST_RUN"}, c \in 1..MaxCapacity,
       p \in {SingleVehicle, TruckAndCar, OnePerNode} :
        \E d \in DestinationMaps(p) :
            Loaded(RingWithChord, [i \in Nodes |-> c], p, d, md, [k \in 1..MaxVehicles |-> k])

\* a thread of the pool takes the task at the front of the queue and runs it; the body
\* starts with active_threads++
PoolThreadRuns ==
    /\ thread_pool.tasks # <<>>
    /\ Cardinality(thread_pool.busy) < thread_pool_threads
    /\ thread_pool' = [tasks |-> Tail(thread_pool.tasks),
                       busy |-> thread_pool.busy \cup {Head(thread_pool.tasks)}]
    /\ active_threads' = active_threads + 1
    /\ UNCHANGED <<nodes, adjacency_matrix, destinations, stats, next_vehicle_id, mode, simulation_running,
                   shutdown_requested, pc, sweep_i, events, enqueue_order,
                   loaded_within_capacity, call, wake_signal, denied_in_a_row,
                   global_coordinator_mutex, futures_ready, future_idx>>

\* traffic_processing_loop(node_idx) leaves its while loop: active_threads--, return
TrafficProcessingExit ==
    /\ shutdown_requested
    /\ \E node_idx \in DOMAIN nodes :
          /\ traffic_processing_loop(node_idx) \in thread_pool.busy
          /\ thread_pool' = returned_from(thread_pool, traffic_processing_loop(node_idx))
          /\ futures_ready' = futures_ready \cup {traffic_processing_loop(node_idx)}
    /\ active_threads' = active_threads - 1
    /\ UNCHANGED <<nodes, adjacency_matrix, destinations, stats, next_vehicle_id, mode, simulation_running,
                   shutdown_requested, pc, sweep_i, events, enqueue_order,
                   loaded_within_capacity, call, wake_signal, denied_in_a_row,
                   global_coordinator_mutex, future_idx>>

\* ui_update_loop leaves its while loop: active_threads--, return
UiUpdateExit ==
    /\ shutdown_requested
    /\ ui_update_loop \in thread_pool.busy
    /\ thread_pool' = returned_from(thread_pool, ui_update_loop)
    /\ futures_ready' = futures_ready \cup {ui_update_loop}
    /\ active_threads' = active_threads - 1
    /\ UNCHANGED <<nodes, adjacency_matrix, destinations, stats, next_vehicle_id, mode, simulation_running,
                   shutdown_requested, pc, sweep_i, events, enqueue_order,
                   loaded_within_capacity, call, wake_signal, denied_in_a_row,
                   global_coordinator_mutex, future_idx>>

\* the for loop over futures of run_automatic_simulation is waiting for a future
WaitingForFuture ==
    /\ simulation_running
    /\ shutdown_requested
    /\ future_idx <= Len(futures(nodes, mode))

\* future.wait_for(seconds(2)): the body has returned, the future is ready
FutureReady ==
    /\ WaitingForFuture
    /\ futures(nodes, mode)[future_idx] \in futures_ready
    /\ future_idx' = future_idx + 1
    /\ UNCHANGED <<nodes, adjacency_matrix, destinations, stats, next_vehicle_id, mode, simulation_running,
                   shutdown_requested, pc, sweep_i, events, enqueue_order,
                   loaded_within_capacity, call, wake_signal, denied_in_a_row,
                   global_coordinator_mutex, thread_pool, futures_ready, active_threads>>

\* future.wait_for(seconds(2)) == future_status::timeout: the body has not returned
\* within the two seconds, a warning is printed and the loop goes on
FutureTimeout ==
    /\ WaitingForFuture
    /\ futures(nodes, mode)[future_idx] \notin futures_ready
    /\ future_idx' = future_idx + 1
    /\ UNCHANGED <<nodes, adjacency_matrix, destinations, stats, next_vehicle_id, mode, simulation_running,
                   shutdown_requested, pc, sweep_i, events, enqueue_order,
                   loaded_within_capacity, call, wake_signal, denied_in_a_row,
                   global_coordinator_mutex, thread_pool, futures_ready, active_threads>>

\* run_automatic_simulation after its last for loop: simulation_running = false and
\* the final report
RunStopped ==
    /\ simulation_running
    /\ shutdown_requested
    /\ future_idx > Len(futures(nodes, mode))
    /\ simulation_running' = FALSE
    /\ UNCHANGED <<nodes, adjacency_matrix, destinations, stats, next_vehicle_id, mode,
                   shutdown_requested, pc, sweep_i, events, enqueue_order,
                   loaded_within_capacity, call, wake_signal, denied_in_a_row,
                   global_coordinator_mutex, thread_pool, futures_ready, active_threads,
                   future_idx>>

NextThreads ==
    \/ RunSimulation
    \/ EnterLoopBody
    \/ StartSweep
    \/ SweepNode
    \/ EndSweep
    \/ WorkerNotify
    \/ CoordinatorWake
    \/ TokenCycleElapsed
    \/ CoordinatorExit
    \/ RaiseShutdown
    \/ PoolThreadRuns
    \/ TrafficProcessingExit
    \/ UiUpdateExit
    \/ FutureReady
    \/ FutureTimeout
    \/ RunStopped

SpecThreads == InitThreads /\ [][NextThreads]_vars

\* the networks SpecThreads starts from that have capacity 1 everywhere, a FireTruck at
\* node 0 and a Regular vehicle at node 2, both bound for node 1
InitShutdown ==
    \E md \in {"AUTOMATIC", "FAST_RUN"} :
        Loaded(RingWithChord, [i \in Nodes |-> 1], TruckAndCar, (0 :> 1) @@ (2 :> 1), md,
               [k \in 1..MaxVehicles |-> k])

\* a step of a pool thread: it takes a task, or the body it runs goes on
ThreadStep ==
    \/ PoolThreadRuns
    \/ EnterLoopBody
    \/ StartSweep
    \/ SweepNode
    \/ EndSweep
    \/ CoordinatorWake
    \/ TokenCycleElapsed
    \/ CoordinatorExit
    \/ TrafficProcessingExit
    \/ UiUpdateExit

\* fair scheduling: as long as a pool thread can take a step, one of them does
SpecThreadsFair ==
    /\ InitShutdown
    /\ [][NextThreads]_vars
    /\ WF_vars(ThreadStep)


(***************************************************************************)
(* Calls of the pure functions on inputs drawn from bounded sets           *)
(***************************************************************************)
NoVehicles == [i \in Nodes |-> 0]

\* a network without vehicles; the engine is not running
Network(m, caps, d) ==
    /\ adjacency_matrix = m
    /\ destinations = d
    /\ nodes = load_input(m, NumNodes, caps, NoVehicles, NoVehicles, NoVehicles, d,
                          [k \in 1..MaxVehicles |-> k])
    /\ stats = SystemStats
    /\ next_vehicle_id = 1
    /\ mode = "STEP_BY_STEP"
    /\ simulation_running = FALSE
    /\ shutdown_requested = FALSE
    /\ pc = "call"
    /\ sweep_i = 0
    /\ events = <<>>
    /\ enqueue_order = waiting_ids(nodes)
    /\ loaded_within_capacity = within_capacity(nodes)
    /\ wake_signal = FALSE
    /\ denied_in_a_row = NeverDenied
    /\ NoThreads

engine_vars == <<nodes, adjacency_matrix, destinations, stats, next_vehicle_id, mode,
                 simulation_running, shutdown_requested, pc, sweep_i, events,
                 enqueue_order, loaded_within_capacity, wake_signal, denied_in_a_row,
                 global_coordinator_mutex, thread_pool, futures_ready, active_threads,
                 future_idx>>

\* find_best_next_hop(from_node, destination) on every graph; from_node = NumNodes is
\* out of range
InitRouter ==
    \E m \in Matrices, from_node \in 0..NumNodes, destination \in Nodes :
        /\ Network(m, [i \in Nodes |-> 1], <<>>)
        /\ call = [fn |-> "find_best_next_hop", from_node |-> from_node,
                   destination |-> destination, done |-> FALSE, result |-> NoPath]

RouterCall ==
    /\ call.fn = "find_best_next_hop"
    /\ ~call.done
    /\ call' = [call EXCEPT !.done = TRUE,
                            !.result = find_best_next_hop(nodes, call.from_node,
                                                          call.destination)]
    /\ UNCHANGED engine_vars

NextRouter == RouterCall

SpecRouter == InitRouter /\ [][NextRouter]_vars

\* can_move_to_node_safe(node_idx, vehicle_type) for every capacity and occupancy of
\* the node asked about; node_idx = -1 and node_idx = NumNodes are out of range
InitAdmission ==
    \E node_idx \in -1..NumNodes, vehicle_type \in VehicleTypes,
       caps \in [Nodes -> 0..MaxCapacity], occupancy \in [Nodes -> 0..(MaxCapacity + 2)] :
        /\ adjacency_matrix = RingWithChord
        /\ destinations = <<>>
        /\ nodes = [i \in Nodes |->
                      [NodeData(i, caps[i]) EXCEPT !.current_vehicles = occupancy[i]]]
        /\ stats = SystemStats
        /\ next_vehicle_id = 1
        /\ mode = "STEP_BY_STEP"
        /\ simulation_running = FALSE
        /\ shutdown_requested = FALSE
        /\ pc = "call"
        /\ sweep_i = 0
        /\ events = <<>>
        /\ enqueue_order = waiting_ids(nodes)
        /\ loaded_within_capacity = within_capacity(nodes)
        /\ wake_signal = FALSE
        /\ denied_in_a_row = NeverDenied
        /\ NoThreads
        /\ call = [fn |-> "can_move_to_node_safe", node_idx |-> node_idx,
                   vehicle_type |-> vehicle_type, done |-> FALSE, result |-> FALSE]

AdmissionCall ==
    /\ call.fn = "can_move_to_node_safe"
    /\ ~call.done
    /\ call' = [call EXCEPT !.done = TRUE,
                            !.result = can_move_to_node_safe(nodes, call.node_idx,
                                                             call.vehicle_type)]
    /\ UNCHANGED engine_vars

NextAdmission == AdmissionCall

SpecAdmission == InitAdmission /\ [][NextAdmission]_vars

\* the destinations maps: a destination for some of the nodes
PartialDestinationMaps == UNION {[S -> Nodes] : S \in SUBSET Nodes}

\* validate_input(adjacency_matrix, nodes, destinations) on every graph, every
\* destinations map and capacities 0 and 1
InitValidator ==
    \E m \in Matrices, d \in PartialDestinationMaps, caps \in [Nodes -> 0..1] :
        /\ Network(m, caps, d)
        /\ call = [fn |-> "validate_input", done |-> FALSE, result |-> "none"]

ValidatorCall ==
    /\ call.fn = "validate_input"
    /\ ~call.done
    /\ call' = [call EXCEPT !.done = TRUE,
                            !.result = validate_input(adjacency_matrix, nodes, destinations)]
    /\ UNCHANGED engine_vars

NextValidator == ValidatorCall

SpecValidator == InitValidator /\ [][NextValidator]_vars

(***************************************************************************)
(* Repeated calls of execute_single_step on four-node networks with one    *)
(* Regular vehicle                                                         *)
(***************************************************************************)
\* the capacities section of the four-node network A, B, C, D
ScenarioCapacities == <<5, 3, 4, 6>>

ScenarioNodes == 0..(Len(ScenarioCapacities) - 1)

\* the cycle A -> B -> C -> D -> A with the edge A -> C
ScenarioMatrix ==
    [i \in ScenarioNodes |-> [j \in ScenarioNodes |->
        IF j = (i + 1) % Len(ScenarioCapacities) \/ (i = 0 /\ j = 2) THEN 1 ELSE 0]]

\* every node with its capacity of the scenario or with capacity 1, one Regular
\* vehicle at any node with any destination
InitScenario ==
    \E caps \in [ScenarioNodes -> 1..6], start \in ScenarioNodes, dest \in ScenarioNodes :
        /\ \A i \in ScenarioNodes : caps[i] \in {1, ScenarioCapacities[i + 1]}
        /\ adjacency_matrix = ScenarioMatrix
        /\ destinations = [i \in {start} |-> dest]
        /\ nodes = load_input(ScenarioMatrix, Len(ScenarioCapacities), caps,
                              [i \in ScenarioNodes |-> IF i = start THEN 1 ELSE 0],
                              [i \in ScenarioNodes |-> 0], [i \in ScenarioNodes |-> 0],
                              destinations, [k \in 1..MaxVehicles |-> k])
        /\ stats = SystemStats
        /\ next_vehicle_id = 1 + queued_from(nodes, 0)
        /\ mode = "STEP_BY_STEP"
        /\ simulation_running = FALSE
        /\ shutdown_requested = FALSE
        /\ pc = "call"
        /\ sweep_i = 0
        /\ events = <<>>
        /\ enqueue_order = waiting_ids(nodes)
        /\ loaded_within_capacity = within_capacity(nodes)
        /\ wake_signal = FALSE
        /\ denied_in_a_row = NeverDenied
        /\ NoThreads
        /\ call = [fn |-> "execute_single_step", start |-> start, calls |-> 0,
                   movement_occurred |-> FALSE]

\* one more call of execute_single_step, as long as the last one reported a movement
ScenarioStep ==
    /\ call.fn = "execute_single_step"
    /\ call.calls = 0 \/ call.movement_occurred
    /\ call.calls < max_steps
    /\ \E r \in execute_single_step(nodes, stats) :
        /\ nodes' = r.nodes
        /\ stats' = r.stats
        /\ events' = r.events
        /\ enqueue_order' = order_after_all(enqueue_order, r.events)
        /\ denied_in_a_row' = denials_after_all(denied_in_a_row, r.events)
        /\ call' = [call EXCEPT !.calls = @ + 1, !.movement_occurred = r.moved]
    /\ UNCHANGED <<adjacency_matrix, destinations, next_vehicle_id, mode, simulation_running,
                   shutdown_requested, pc, sweep_i, loaded_within_capacity, wake_signal, global_coordinator_mutex, thread_pool,
                   futures_ready, active_threads, future_idx>>

NextScenario == ScenarioStep

SpecScenario == InitScenario /\ [][NextScenario]_vars

(***************************************************************************)
(* A junction: four nodes, the roads A -> B, B -> C, B -> D and C -> B,     *)
(* one Regular vehicle at each of A, B and C                                *)
(***************************************************************************)
JunctionMatrix ==
    [i \in ScenarioNodes |-> [j \in ScenarioNodes |->
        IF <<i, j>> \in {<<0, 1>>, <<1, 2>>, <<1, 3>>, <<2, 1>>} THEN 1 ELSE 0]]

\* the nodes of the junction that hold a vehicle at load
JunctionSources == {0, 1, 2}

\* every input on the junction that TrafficNetwork::initialize accepts: any capacities,
\* any destinations that pass validate_input
InitJunction ==
    \E caps \in [ScenarioNodes -> 1..MaxCapacity], d \in [JunctionSources -> ScenarioNodes] :
        /\ \A i \in JunctionSources : d[i] # i
        /\ adjacency_matrix = JunctionMatrix
        /\ destinations = d
        /\ nodes = load_input(JunctionMatrix, Len(ScenarioCapacities), caps,
                              [i \in ScenarioNodes |-> IF i \in JunctionSources THEN 1 ELSE 0],
                              [i \in ScenarioNodes |-> 0], [i \in ScenarioNodes |-> 0],
                              destinations, [k \in 1..MaxVehicles |-> k])
        /\ validate_input(adjacency_matrix, nodes, destinations) = "INPUT_VALID"
        /\ stats = SystemStats
        /\ next_vehicle_id = 1 + queued_from(nodes, 0)
        /\ mode = "STEP_BY_STEP"
        /\ simulation_running = FALSE
        /\ shutdown_requested = FALSE
        /\ pc = "call"
        /\ sweep_i = 0
        /\ events = <<>>
        /\ enqueue_order = waiting_ids(nodes)
        /\ loaded_within_capacity = within_capacity(nodes)
        /\ wake_signal = FALSE
        /\ denied_in_a_row = NeverDenied
        /\ NoThreads
        /\ call = [fn |-> "execute_single_step", start |-> 0, calls |-> 0,
                   movement_occurred |-> FALSE]

SpecJunction == InitJunction /\ [][NextScenario]_vars


(***************************************************************************)
(* Graph notions the properties are stated with                            *)
(***************************************************************************)
\* the nodes reached from the set S in exactly k steps along directed edges
RECURSIVE Layer(_, _, _)
Layer(m, S, k) ==
    IF k = 0 THEN S
    ELSE {j \in DOMAIN m : \E i \in Layer(m, S, k - 1) : m[i][j] > 0}

\* the length of a shortest directed path from a to b; NumNodes when there is none
Dist(m, a, b) ==
    IF \E k \in 0..(NumNodes - 1) : b \in Layer(m, {a}, k)
    THEN CHOOSE k \in 0..(NumNodes - 1) :
            /\ b \in Layer(m, {a}, k)
            /\ \A l \in 0..(k - 1) : b \notin Layer(m, {a}, l)
    ELSE NumNodes

DirectedPath(m, a, b) == Dist(m, a, b) < NumNodes

\* the matrix with every edge in both directions
Undirected(m) == [i \in DOMAIN m |-> [j \in DOMAIN m |->
                    IF m[i][j] > 0 \/ m[j][i] > 0 THEN 1 ELSE 0]]

UndirectedConnected(m) == \A i \in DOMAIN m : DirectedPath(Undirected(m), 0, i)

ReachableFromZero(m) == \A i \in DOMAIN m : DirectedPath(m, 0, i)

(***************************************************************************)
(* Properties                                                              *)
(***************************************************************************)
EventsOf(evs) == {evs[k] : k \in 1..Len(evs)}

\* C1: from a loaded state with current_vehicles <= capacity at every node, every
\* node keeps current_vehicles <= capacity + 1 in step mode and in automatic mode,
\* and whenever a node's occupancy rises above its capacity the vehicle admitted
\* to it was an Ambulance or a FireTruck, never a Regular one.
C1_OccupancyBound ==
    /\ [](loaded_within_capacity =>
            \A i \in DOMAIN nodes : nodes[i].current_vehicles <= nodes[i].capacity + 1)
    /\ [][loaded_within_capacity =>
            \A i \in DOMAIN nodes :
                (/\ nodes'[i].current_vehicles > nodes[i].current_vehicles
                 /\ nodes'[i].current_vehicles > nodes[i].capacity)
                => \E e \in EventsOf(events') :
                      /\ e.outcome = "moved"
                      /\ e.next_node = i
                      /\ e.vehicle.type # REGULAR]_vars

\* C1 witness: a network loaded within capacity in which the admission of an
\* emergency vehicle has brought a node to capacity + 1
C1_Witness ==
    /\ loaded_within_capacity
    /\ \E e \in EventsOf(events) :
          /\ e.outcome = "moved"
          /\ e.vehicle.type # REGULAR
          /\ nodes[e.next_node].current_vehicles = nodes[e.next_node].capacity + 1

\* C2: for an in-range node, can_move_to_node_safe is true for a Regular vehicle
\* iff current_vehicles < capacity and for an Ambulance or FireTruck iff
\* current_vehicles < capacity + 1.
C2_AdmissionRule ==
    (call.fn = "can_move_to_node_safe" /\ call.done /\ call.node_idx \in DOMAIN nodes)
    => LET node == nodes[call.node_idx] IN
       /\ call.vehicle_type = REGULAR
            => (call.result <=> node.current_vehicles < node.capacity)
       /\ call.vehicle_type \in {AMBULANCE, FIRE_TRUCK}
            => (call.result <=> node.current_vehicles < node.capacity + 1)
       /\ (node.current_vehicles = node.capacity /\ call.vehicle_type = REGULAR)
            => ~call.result
       /\ (node.current_vehicles = node.capacity /\ call.vehicle_type # REGULAR)
            => call.result
       /\ node.current_vehicles = node.capacity + 1 => ~call.result

\* C2 witness: at occupancy == capacity an emergency vehicle has been admitted
C2_Witness ==
    /\ call.fn = "can_move_to_node_safe" /\ call.done
    /\ call.node_idx \in DOMAIN nodes
    /\ nodes[call.node_idx].current_vehicles = nodes[call.node_idx].capacity
    /\ call.vehicle_type = AMBULANCE
    /\ call.result

RECURSIVE occupancy_from(_, _)
occupancy_from(ns, i) ==
    IF i >= nodes_size(ns) THEN 0 ELSE ns[i].current_vehicles + occupancy_from(ns, i + 1)

\* C3: in step mode, after every execute_single_step, the sum of current_vehicles
\* over all nodes equals the vehicles created at load minus successful_routes, and
\* so does the number of queued vehicles (no vehicle is outside a node).
C3_Conservation ==
    mode = "STEP_BY_STEP"
    => /\ occupancy_from(nodes, 0) = (next_vehicle_id - 1) - stats.successful_routes
       /\ queued_from(nodes, 0) = (next_vehicle_id - 1) - stats.successful_routes

\* C3 witness: a step run in which one vehicle has completed its trip, another has
\* relocated to a node that is not its destination and is still queued
C3_Witness ==
    /\ mode = "STEP_BY_STEP"
    /\ stats.successful_routes >= 1
    /\ stats.total_moves > stats.successful_routes
    /\ queued_from(nodes, 0) >= 1

\* C4: a vehicle extracted while the node's emergency queue is non-empty is taken
\* from the emergency queue; a Regular vehicle is extracted only when the
\* emergency queue is empty.
C4_EmergencyFirst ==
    \A e \in EventsOf(events) :
        /\ e.emergency_before # {} => (e.is_emergency /\ e.vehicle \in e.emergency_before)
        /\ e.vehicle.type = REGULAR => e.emergency_before = {}

\* C4 witness: an emergency vehicle was extracted, and sent to another node, at a
\* node where a Regular vehicle was waiting
C4_Witness ==
    \E e \in EventsOf(events) :
        /\ e.is_emergency
        /\ e.emergency_before # {}
        /\ e.next_node # e.node
        /\ nodes[e.node].waiting_queue # <<>>

\* C5: the vehicle extracted from an emergency queue is an Ambulance if an
\* Ambulance is queued, otherwise a FireTruck, and no queued vehicle of its class
\* has an earlier arrival_time.
C5_EmergencyOrder ==
    \A e \in EventsOf(events) :
        e.is_emergency =>
            /\ e.vehicle.type \in {AMBULANCE, FIRE_TRUCK}
            /\ (\E o \in e.emergency_before : o.type = AMBULANCE) => e.vehicle.type = AMBULANCE
            /\ \A o \in e.emergency_before :
                  o.type = e.vehicle.type => e.vehicle.arrival_time <= o.arrival_time

\* C5 witness: an extraction from an emergency queue holding two Ambulances of
\* different arrival times and a FireTruck
C5_Witness ==
    \E e \in EventsOf(events) :
        \E a, b, c \in e.emergency_before :
            /\ a.type = AMBULANCE /\ b.type = AMBULANCE /\ c.type = FIRE_TRUCK
            /\ a.arrival_time < b.arrival_time
            /\ e.vehicle = a

\* C6: a Regular vehicle that leaves a node (relocates or completes) is the one
\* that arrived at that node's waiting queue first among those still there.
C6_RegularFifo ==
    [][stats'.total_moves # stats.total_moves =>
          \A e \in EventsOf(events') :
              (e.vehicle.type = REGULAR /\ e.outcome \in {"moved", "completed"})
              => Head(enqueue_order[e.node]) = e.vehicle.vehicle_id]_vars


RouterAnswered == call.fn = "find_best_next_hop" /\ call.done

HasOutgoingEdge(m, i) == \E j \in DOMAIN m : m[i][j] > 0

\* C7 as stated: for from_node with an outgoing edge and a destination reachable from
\* it, find_best_next_hop returns the destination when it is a direct neighbour and
\* otherwise a neighbour one step closer to the destination.
C7_ShortestFirstHop ==
    (/\ RouterAnswered
     /\ call.from_node \in Nodes
     /\ HasOutgoingEdge(adjacency_matrix, call.from_node)
     /\ DirectedPath(adjacency_matrix, call.from_node, call.destination))
    => IF adjacency_matrix[call.from_node][call.destination] > 0
       THEN call.result = call.destination
       ELSE /\ call.result \in Nodes
            /\ adjacency_matrix[call.from_node][call.result] > 0
            /\ Dist(adjacency_matrix, call.result, call.destination)
                 = Dist(adjacency_matrix, call.from_node, call.destination) - 1

\* C7 amended: the same for every reachable destination that is a direct neighbour
\* of from_node or is not from_node itself.
C7_ShortestFirstHopToOtherNode ==
    (/\ RouterAnswered
     /\ call.from_node \in Nodes
     /\ HasOutgoingEdge(adjacency_matrix, call.from_node)
     /\ DirectedPath(adjacency_matrix, call.from_node, call.destination)
     /\ \/ call.destination # call.from_node
        \/ adjacency_matrix[call.from_node][call.destination] > 0)
    => IF adjacency_matrix[call.from_node][call.destination] > 0
       THEN call.result = call.destination
       ELSE /\ call.result \in Nodes
            /\ adjacency_matrix[call.from_node][call.result] > 0
            /\ Dist(adjacency_matrix, call.result, call.destination)
                 = Dist(adjacency_matrix, call.from_node, call.destination) - 1

\* C7 witness: a destination two hops away, from a node whose first neighbour is
\* not on the shortest path
C7_Witness ==
    /\ RouterAnswered
    /\ call.from_node \in Nodes
    /\ Dist(adjacency_matrix, call.from_node, call.destination) = 2
    /\ call.result # nodes[call.from_node].adjacent_nodes[1]
    /\ call.result \in Nodes

\* C8: find_best_next_hop returns -1 iff from_node is out of range or has no outgoing
\* edge; with an outgoing edge and an unreachable destination it returns the first
\* entry of from_node's adjacency list.
C8_NoPathAndFallback ==
    RouterAnswered =>
        /\ call.result = -1
             <=> (call.from_node \notin Nodes
                  \/ ~HasOutgoingEdge(adjacency_matrix, call.from_node))
        /\ (/\ call.from_node \in Nodes
            /\ HasOutgoingEdge(adjacency_matrix, call.from_node)
            /\ ~DirectedPath(adjacency_matrix, call.from_node, call.destination))
           => call.result = CHOOSE j \in Nodes :
                               /\ adjacency_matrix[call.from_node][j] > 0
                               /\ \A l \in 0..(j - 1) : adjacency_matrix[call.from_node][l] <= 0

\* C8 witness: an unreachable destination from a node with two outgoing edges,
\* answered with the first of them
C8_Witness ==
    /\ RouterAnswered
    /\ call.from_node \in Nodes
    /\ Len(nodes[call.from_node].adjacent_nodes) = 2
    /\ ~DirectedPath(adjacency_matrix, call.from_node, call.destination)
    /\ call.result = nodes[call.from_node].adjacent_nodes[1]

ValidatorAnswered == call.fn = "validate_input" /\ call.done

AllDestinationsReachable(m, d) == \A src \in DOMAIN d : DirectedPath(m, src, d[src])

\* C9: with all capacities positive, validate_input returns INPUT_VALID iff the graph
\* is connected when its edges are taken as undirected and every destination pair
\* has a directed path.
C9_ValidIffUndirectedConnected ==
    (ValidatorAnswered /\ \A i \in DOMAIN nodes : nodes[i].capacity > 0)
    => (call.result = "INPUT_VALID"
          <=> /\ UndirectedConnected(adjacency_matrix)
              /\ AllDestinationsReachable(adjacency_matrix, destinations))

initialize == validate_input(adjacency_matrix, nodes, destinations) = "INPUT_VALID"

\* C11: when validate_input returned anything other than INPUT_VALID, so that
\* initialize returned false, no vehicle is ever moved on that network.
C11_NoRunWithoutValidation == ~initialize => stats.total_moves = 0


\* the four-node network with capacities 5, 3, 4, 6 and the vehicle at A bound for D
ScenarioCase ==
    /\ call.fn = "execute_single_step"
    /\ adjacency_matrix = ScenarioMatrix
    /\ \A i \in DOMAIN nodes : nodes[i].capacity = ScenarioCapacities[i + 1]
    /\ call.start = 0
    /\ destinations = (0 :> 3)

\* C12: on the four-node network A->B, B->C, C->D, D->A, A->C with capacities
\* 5, 3, 4, 6 and one Regular vehicle at A bound for D, the first call of
\* execute_single_step moves it A->C, the second C->D and completes the trip
\* (successful_routes = 1, total_vehicles_processed = 1, every occupancy 0), the third
\* reports no movement, and no admission is ever denied.
C12_EndToEnd ==
    ScenarioCase =>
        /\ call.calls <= 3
        /\ denied_in_a_row[1] = 0
        /\ \A k \in 1..Len(events) : events[k].outcome \in {"moved", "completed"}
        /\ call.calls = 1 =>
             /\ call.movement_occurred
             /\ Len(events) = 1 /\ events[1].node = 0 /\ events[1].next_node = 2
             /\ events[1].outcome = "moved"
             /\ Len(nodes[2].waiting_queue) = 1
             /\ nodes[2].waiting_queue[1].vehicle_id = 1
             /\ stats.successful_routes = 0
        /\ call.calls = 2 =>
             /\ call.movement_occurred
             /\ Len(events) = 1 /\ events[1].node = 2 /\ events[1].next_node = 3
             /\ events[1].outcome = "completed"
        /\ call.calls = 3 => ~call.movement_occurred /\ events = <<>>
        /\ call.calls >= 2 =>
             /\ stats.successful_routes = 1
             /\ stats.total_vehicles_processed = 1
             /\ stats.total_moves = 2
             /\ \A i \in DOMAIN nodes : nodes[i].current_vehicles = 0
             /\ queued_from(nodes, 0) = 0

\* C12 witness: the third call on that network has reported no movement after the
\* completed trip
C12_Witness ==
    /\ ScenarioCase
    /\ call.calls = 3
    /\ ~call.movement_occurred
    /\ stats.successful_routes = 1


\* the call of execute_single_step in an iteration of the step-by-step loop
StepTaken == pc = "step_loop" /\ stats'.step_count = stats.step_count + 1

\* the lowest-index node with a vehicle queued
first_queued(ns) == CHOOSE i \in DOMAIN ns :
                       /\ get_queue_size(ns[i]) > 0
                       /\ \A j \in DOMAIN ns : get_queue_size(ns[j]) > 0 => i <= j

\* C13: every call of execute_single_step on a network with a queued vehicle extracts
\* exactly one vehicle, from the lowest-index node whose queues are not empty, whether
\* or not its move succeeds; no vehicle of a higher-index node is extracted.
C13_OneExtractionPerStep ==
    [][(StepTaken /\ queued_from(nodes, 0) > 0)
        => /\ Len(events') = 1
           /\ events'[1].node = first_queued(nodes)]_vars


\* the vehicles a handler moved, one hop each
moves_in(evs) == {k \in 1..Len(evs) : evs[k].outcome \in {"moved", "completed"}}

\* C14: the step-by-step loop halts: every iteration is one more call of
\* execute_single_step, there are at most 50 of them, every call returns, the loop
\* leaves after the 50th call and at the first call that reports no movement, and
\* never resumes; a call that reports movement has relocated exactly one vehicle and
\* raised total_moves by exactly 1.
C14_StepLoopHalts ==
    /\ [](stats.step_count <= max_steps)
    /\ [](pc = "step_loop" /\ stats.step_count < max_steps
            => execute_single_step(nodes, stats) # {})
    /\ [][pc = "step_loop" =>
            \/ StepTaken /\ stats'.step_count <= max_steps
            \/ pc' = "returned" /\ stats.step_count = max_steps]_vars
    /\ [][StepTaken =>
            IF pc' = "step_loop"
            THEN /\ stats'.total_moves = stats.total_moves + 1
                 /\ Cardinality(moves_in(events')) = 1
            ELSE /\ pc' = "returned"
                 /\ stats'.total_moves = stats.total_moves
                 /\ moves_in(events') = {}]_vars
    /\ [][pc = "returned" => pc' = "returned"]_vars

\* C14 witness: the loop has left at the ceiling, after 50 calls that all moved a vehicle
C14_Witness ==
    /\ mode = "STEP_BY_STEP"
    /\ pc = "returned"
    /\ stats.step_count = max_steps
    /\ stats.total_moves = max_steps


\* the vehicles held in a node's two queues
queued_vehicles(node) ==
    {node.waiting_queue[k] : k \in 1..Len(node.waiting_queue)} \cup node.emergency_queue

\* C15: a vehicle held in a node's queue carries a blocked-attempt counter equal to the
\* number of times in a row its admission was denied: one more after each denial,
\* k after k consecutive denials (up to the threshold of the reset).
C15_BlockedAttemptsCounted ==
    \A i \in DOMAIN nodes : \A v \in queued_vehicles(nodes[i]) :
        denied_in_a_row[v.vehicle_id] <= reroute_threshold
            => v.blocked_attempts = denied_in_a_row[v.vehicle_id]

\* C16: once a vehicle has been denied admission more than 5 times in a row, the
\* rerouting_attempts statistic has been incremented.
C16_ReroutingEscalation ==
    (\E id \in DOMAIN denied_in_a_row : denied_in_a_row[id] > reroute_threshold)
        => stats.rerouting_attempts >= 1


\* the occupancy of node i once the vehicle of event e has been removed from its source
occupancy_without(ns, e, i) ==
    IF i = e.node /\ ns[i].current_vehicles > 0
    THEN ns[i].current_vehicles - 1
    ELSE ns[i].current_vehicles

\* the step is a handler that admitted the vehicle of its event e to the candidate node
Admitted(e) ==
    /\ stats'.total_moves = stats.total_moves + 1
    /\ e \in EventsOf(events')
    /\ e.outcome \in {"moved", "completed"}

\* C17 as stated: an admitted vehicle raises the occupancy of its candidate node by one,
\* when it is enqueued there and when the candidate node is its destination.
C17_OccupancyRaisedOnAdmission ==
    [][\A e \in EventsOf(events') :
          Admitted(e) => nodes'[e.next_node].current_vehicles
                           = occupancy_without(nodes, e, e.next_node) + 1]_vars

\* C17 amended: an admitted vehicle raises the occupancy of its candidate node by one
\* when it is enqueued there, and leaves it as it is when the candidate node is the
\* vehicle's destination and the vehicle is discarded.
C17_OccupancyRaisedWhenEnqueued ==
    [][\A e \in EventsOf(events') :
          Admitted(e) => nodes'[e.next_node].current_vehicles
                           = occupancy_without(nodes, e, e.next_node)
                               + (IF e.outcome = "moved" THEN 1 ELSE 0)]_vars

\* C17 witness: both outcomes have happened in automatic mode: a trip was completed and
\* the vehicle admitted last was enqueued at its candidate node
C17_Witness ==
    /\ mode = "AUTOMATIC"
    /\ stats.successful_routes >= 1
    /\ \E e \in EventsOf(events) :
          /\ e.outcome = "moved"
          /\ e.vehicle.vehicle_id \in
               {v.vehicle_id : v \in queued_vehicles(nodes[e.next_node])}


\* the statistics a vehicle's processing can change
counters(st) == <<st.total_moves, st.successful_routes, st.total_vehicles_processed,
                  st.emergency_vehicles_processed, st.rerouting_attempts>>

\* C18: a vehicle for which find_best_next_hop returned NoPath is back in the queue it
\* was taken from, at the same node and in no other queue; when no other vehicle was
\* processed with it, every node's occupancy and queue length and every statistic are
\* as they were.
C18_RoutingFailureRequeues ==
    [][\A e \in EventsOf(events') :
          e.outcome = "no_path" =>
            /\ e.next_node = NoPath
            /\ IF e.is_emergency
               THEN e.vehicle \in nodes'[e.node].emergency_queue
               ELSE \E k \in 1..Len(nodes'[e.node].waiting_queue) :
                       nodes'[e.node].waiting_queue[k] = e.vehicle
            /\ \A i \in DOMAIN nodes :
                  \A v \in queued_vehicles(nodes'[i]) :
                      v.vehicle_id = e.vehicle.vehicle_id =>
                          i = e.node /\ (v.type # REGULAR <=> e.is_emergency)
            /\ (\A o \in EventsOf(events') : o.outcome = "no_path") =>
                  /\ \A i \in DOMAIN nodes :
                        /\ nodes'[i].current_vehicles = nodes[i].current_vehicles
                        /\ Len(nodes'[i].waiting_queue) = Len(nodes[i].waiting_queue)
                        /\ nodes'[i].emergency_queue = nodes[i].emergency_queue
                  /\ counters(stats') = counters(stats)]_vars

\* C18 witness: an Ambulance at a node without outgoing edges was extracted, found
\* without a path and is back in the emergency queue of its node
C18_Witness ==
    \E e \in EventsOf(events) :
        /\ e.outcome = "no_path"
        /\ e.is_emergency
        /\ e.vehicle \in nodes[e.node].emergency_queue
        /\ nodes[e.node].adjacent_nodes = <<>>


\* what processing one selected vehicle leaves behind: the vehicle, the nodes with
\* their occupancies and queues, the statistics
Processed(results) ==
    {[selected |-> r.events, nodes |-> r.nodes, stats |-> r.stats] : r \in results}

\* C19: in every state of the network and for every node, processing the node's
\* selected vehicle by process_single_vehicle_movement (step mode) and by
\* process_node_vehicles (automatic mode) leaves the same occupancies, the same queues
\* with the same blocked-attempt counters and the same statistics.
C19_ModesProcessAlike ==
    \A i \in DOMAIN nodes :
        Processed(process_single_vehicle_movement(nodes, stats, i))
            = Processed(process_node_vehicles(nodes, stats, i))

\* C19 witness: a node whose selected vehicle is denied admission once more after
\* having been denied as often as the rerouting threshold
C19_Witness ==
    \E i \in DOMAIN nodes : \E r \in process_node_vehicles(nodes, stats, i) :
        /\ r.events # <<>>
        /\ r.events[1].outcome = "blocked"
        /\ denied_in_a_row[r.events[1].vehicle.vehicle_id] >= reroute_threshold


\* C20: in automatic mode, when the coordinating loop is waiting between two sweeps
\* and acts on the signal of an advisory worker (no shutdown requested), it leaves the
\* wait and goes on to its next sweep without waiting for the rest of the period.
C20_EarlyWakeOnSignal ==
    [][(/\ pc = "auto_wait"
        /\ wake_signal /\ ~wake_signal'
        /\ ~shutdown_requested /\ ~shutdown_requested')
       => pc' = "auto_loop"]_vars


\* C21: in automatic mode every change to a node's queues, occupancy counter or
\* vehicles is made by the coordinating loop in a sweep, with global_coordinator_mutex
\* held before and after the change; the mutex is held from the first to the last
\* node of a sweep; the steps of the advisory workers, of the reporting worker and of
\* the pool threads taking them change no node.
C21_CoordinatorAloneChangesNodes ==
    /\ [](pc = "auto_sweep" => global_coordinator_mutex = "token_allocation_loop")
    /\ [][nodes' # nodes =>
            /\ pc = "auto_sweep" /\ pc' = "auto_sweep"
            /\ token_allocation_loop \in thread_pool.busy
            /\ global_coordinator_mutex = "token_allocation_loop"
            /\ global_coordinator_mutex' = "token_allocation_loop"]_vars
    /\ [][(WorkerNotify \/ TrafficProcessingExit \/ UiUpdateExit \/ PoolThreadRuns)
            => nodes' = nodes]_vars

\* C21 witness: the coordinating loop has processed the last node of a sweep, a vehicle
\* moved there, while advisory workers and the reporting worker are running
C21_Witness ==
    /\ pc = "auto_sweep"
    /\ sweep_i = nodes_size(nodes)
    /\ \E e \in EventsOf(events) : e.outcome = "moved" /\ e.node = nodes_size(nodes) - 1
    /\ global_coordinator_mutex = "token_allocation_loop"
    /\ traffic_processing_loop(0) \in thread_pool.busy
    /\ ui_update_loop \in thread_pool.busy

\* the coordinating loop goes on to the next node of its sweep
NodeVisited == pc = "auto_sweep" /\ sweep_i' # sweep_i

\* C22: a sweep of the coordinating loop starts at node 0, visits the nodes in
\* increasing index order and ends after the last one; at a node whose queues are not
\* empty when it is visited exactly one vehicle of that node is extracted and
\* attempted, at a node whose queues are empty nothing is changed; nothing else in
\* automatic mode changes a node.
C22_OneAttemptPerNodeInOrder ==
    /\ [][(pc # "auto_sweep" /\ pc' = "auto_sweep") => sweep_i' = 0]_vars
    /\ [][NodeVisited =>
            /\ sweep_i < nodes_size(nodes)
            /\ sweep_i' = sweep_i + 1
            /\ pc' = "auto_sweep"
            /\ IF get_queue_size(nodes[sweep_i]) > 0
               THEN /\ Len(events') = 1
                    /\ events'[1].node = sweep_i
                    /\ events'[1].vehicle \in queued_vehicles(nodes[sweep_i])
                    /\ get_queue_size(nodes'[sweep_i])
                         = get_queue_size(nodes[sweep_i])
                             - (IF events'[1].outcome \in {"moved", "completed"}
                                   /\ events'[1].next_node # sweep_i THEN 1
                                ELSE IF events'[1].outcome = "completed" THEN 1 ELSE 0)
               ELSE events' = <<>> /\ nodes' = nodes]_vars
    /\ [][(pc = "auto_sweep" /\ pc' # "auto_sweep") => sweep_i = nodes_size(nodes)]_vars
    /\ [][(mode # "STEP_BY_STEP" /\ nodes' # nodes) => NodeVisited]_vars

\* C22 witness: the last node of a sweep had a vehicle queued when it was visited and
\* its attempt was denied, after a node of lower index had its vehicle moved to it
C22_Witness ==
    /\ pc = "auto_sweep"
    /\ sweep_i = nodes_size(nodes)
    /\ \E e \in EventsOf(events) : e.outcome = "blocked" /\ e.node = nodes_size(nodes) - 1
    /\ stats.total_moves >= 1

\* C23: when the shutdown flag is raised, every body run_automatic_simulation submitted
\* (the coordinating loop, the advisory worker of every node and, in AUTOMATIC mode, the
\* reporting worker) has been started by a thread of the pool: none is still in the
\* pool's task queue.
C23_AllBodiesRunBeforeShutdown ==
    [][(~shutdown_requested /\ shutdown_requested') =>
          /\ thread_pool.tasks = <<>>
          /\ thread_pool.busy = {futures(nodes, mode)[k] : k \in 1..Len(futures(nodes, mode))}]_vars

\* run_automatic_simulation sets simulation_running = false: the run is declared stopped
DeclaredStopped == simulation_running /\ ~simulation_running' /\ shutdown_requested

\* C25: when the engine declares the run stopped in automatic mode, every submitted
\* body has observed the shutdown flag and returned: no pool thread is running a body
\* and none is left in the task queue.
C25_StoppedAfterAllWorkersExited ==
    [][(mode # "STEP_BY_STEP" /\ DeclaredStopped) =>
          /\ thread_pool.busy = {}
          /\ thread_pool.tasks = <<>>
          /\ active_threads = 0]_vars

\* C26: once the engine has declared the run stopped after a shutdown, also one
\* requested in the middle of a sweep, no node's occupancy counter or queue changes.
C26_NoMutationAfterStopped ==
    [][(mode # "STEP_BY_STEP" /\ shutdown_requested /\ ~simulation_running)
          => nodes' = nodes]_vars

\* C27: when run_simulation has returned, in step-by-step mode as in automatic mode,
\* the engine is no longer Running (simulation_running is false), and the mode chosen
\* at entry is never changed.
C27_StoppedWhenRunReturns ==
    /\ [](pc = "returned" => ~simulation_running)
    /\ [][mode' = mode]_vars

\* C28: in automatic mode the admission check and the occupancy update of one move are
\* one atomic unit: the nodes change only inside the coordinator's sweep, which holds
\* global_coordinator_mutex, so the capacity re-check of perform_vehicle_move never fails
\* and no vehicle is ever returned to its source by that branch.
C28_RecheckNeverFails ==
    /\ \A e \in EventsOf(events) : e.outcome # "returned"
    /\ pc = "auto_sweep" => global_coordinator_mutex = "token_allocation_loop"

\* a vehicle admitted by can_move_to_node_safe has taken the last free slot of its next node
C28_Witness ==
    /\ mode # "STEP_BY_STEP"
    /\ \E e \in EventsOf(events) :
          /\ e.outcome = "moved"
          /\ nodes[e.next_node].current_vehicles >= nodes[e.next_node].capacity
          /\ \E v \in queued_vehicles(nodes[e.next_node]) :
                v.vehicle_id = e.vehicle.vehicle_id

\* the step-by-step run has ended on a step that reported no movement
NoMovementReported ==
    /\ mode = "STEP_BY_STEP"
    /\ \/ pc = "returned"
       \/ call.fn = "execute_single_step" /\ call.calls > 0 /\ ~call.movement_occurred
    /\ \A e \in EventsOf(events) : e.outcome \notin {"moved", "completed"}

\* vehicle v, queued at node i, has a next hop that would admit it
CouldMove(i, v) ==
    LET next_node == find_best_next_hop(nodes, i, v.destination_node)
    IN next_node # -1 /\ can_move_to_node_safe(nodes, next_node, v.type)

\* C29: when execute_single_step reports no movement and the run ends, no queued vehicle
\* anywhere in the network could move: each one has no next hop or is denied admission
\* to its next hop in the current state.
C29_NoMovementMeansNoneCouldMove ==
    NoMovementReported =>
        \A i \in DOMAIN nodes : \A v \in queued_vehicles(nodes[i]) : ~CouldMove(i, v)

\* the ids of the vehicles held in the two queues of node i
QueuedIds(i) == {v.vehicle_id : v \in queued_vehicles(nodes[i])}

\* the ids given out at load
CreatedIds == 1..(next_vehicle_id - 1)

\* C30: after load and after every step or per-node processing, in either mode, each
\* node's current_vehicles equals the size of its waiting queue plus the size of its
\* emergency queue, and every vehicle created at load is in exactly one queue of exactly
\* one node or has been counted as completed exactly once: none is duplicated or lost.
C30_OccupancyEqualsQueueContent ==
    /\ \A i \in DOMAIN nodes :
          /\ nodes[i].current_vehicles =
                Len(nodes[i].waiting_queue) + Cardinality(nodes[i].emergency_queue)
          /\ Cardinality(QueuedIds(i)) = get_queue_size(nodes[i])
          /\ QueuedIds(i) \subseteq CreatedIds
    /\ \A i, j \in DOMAIN nodes : i # j => QueuedIds(i) \cap QueuedIds(j) = {}
    /\ Cardinality(CreatedIds \ UNION {QueuedIds(i) : i \in DOMAIN nodes})
          = stats.successful_routes

\* one vehicle has completed its trip, another has moved on and is queued away from
\* the node it was created at, and another has been denied and pushed back
C30_Witness ==
    /\ stats.successful_routes >= 1
    /\ \E i \in DOMAIN nodes : \E v \in queued_vehicles(nodes[i]) : v.source_node # i
    /\ \E id \in DOMAIN denied_in_a_row : denied_in_a_row[id] > 0

\* every body run_automatic_simulation submitted
bodies == {futures(nodes, mode)[k] : k \in 1..Len(futures(nodes, mode))}

\* every submitted body has been run by a pool thread and has returned
AllReturned ==
    /\ futures_ready = bodies
    /\ thread_pool.tasks = <<>>
    /\ thread_pool.busy = {}

\* C24: once shutdown_requested is raised, under fair scheduling every body (the
\* coordinating loop, every advisory worker, the reporting worker, those still queued in
\* the pool included) eventually returns and active_threads reaches 0, also when the
\* notify_all of the shutdown was lost and the coordinating loop is left to the timeout
\* of its wait.
C24_ShutdownLiveness ==
    [](shutdown_requested => <>(AllReturned /\ active_threads = 0))

\* C24 witness: the shutdown was requested while the coordinating loop was entering its
\* wait, the notification was lost, and a body is still queued in the pool
C24_Witness ==
    /\ shutdown_requested
    /\ pc = "auto_wait"
    /\ ~wake_signal
    /\ thread_pool.tasks # <<>>

\* C31: in every reachable state each node's waiting queue holds only Regular vehicles
\* and each node's emergency queue holds only Ambulance and FireTruck vehicles, also
\* after a vehicle was pushed back for want of a route or of admission and after it
\* relocated to another node.
C31_QueueDisciplineByClass ==
    \A i \in DOMAIN nodes :
        /\ \A k \in 1..Len(nodes[i].waiting_queue) : nodes[i].waiting_queue[k].type = REGULAR
        /\ \A v \in nodes[i].emergency_queue : v.type \in {AMBULANCE, FIRE_TRUCK}

\* an emergency vehicle was denied and pushed back, and sits in an emergency queue,
\* while a Regular vehicle has relocated and sits in the waiting queue of another node
C31_Witness ==
    /\ \E i \in DOMAIN nodes : \E v \in nodes[i].emergency_queue :
          denied_in_a_row[v.vehicle_id] > 0
    /\ \E i \in DOMAIN nodes : \E k \in 1..Len(nodes[i].waiting_queue) :
          nodes[i].waiting_queue[k].source_node # i

\* C32: after add_vehicles_to_nodes, for every node and every combination of configured
\* Regular, Ambulance and FireTruck counts, current_vehicles <= capacity + 1 and the
\* number of Regular vehicles placed is at most the node's capacity.
C32_LoaderRespectsCapacity ==
    pc = "initialized" =>
        \A i \in DOMAIN nodes :
            /\ nodes[i].current_vehicles <= nodes[i].capacity + 1
            /\ Len(nodes[i].waiting_queue) <= nodes[i].capacity

\* C33: whenever find_best_next_hop returns a node other than -1, that node is an entry
\* of the adjacency list of from_node, for every from_node and every destination,
\* destination = from_node included.
C33_NextHopIsOutNeighbour ==
    (RouterAnswered /\ call.result # NoPath) =>
        /\ call.from_node \in DOMAIN nodes
        /\ \E k \in 1..Len(nodes[call.from_node].adjacent_nodes) :
              nodes[call.from_node].adjacent_nodes[k] = call.result

\* the network and its destinations pass TrafficValidator::validate_input
Accepted == validate_input(adjacency_matrix, nodes, destinations) = "INPUT_VALID"

\* the vehicle of event e left its node for its next hop
Relocated(e) == e.outcome \in {"moved", "completed"}

\* C34: on a network accepted by validate_input, every successful relocation of a vehicle
\* whose destination is reachable from its source brings the vehicle exactly one step
\* closer to its destination (so the first-neighbour fallback is never used for it), and
\* the vehicle completes after exactly dist(source, destination) successful moves.
C34_EveryMoveOneStepCloser ==
    [][(Accepted /\ stats'.total_moves # stats.total_moves) =>
          \A e \in EventsOf(events') :
              (/\ Relocated(e)
               /\ DirectedPath(adjacency_matrix, e.vehicle.source_node,
                               e.vehicle.destination_node))
              => /\ Dist(adjacency_matrix, e.next_node, e.vehicle.destination_node)
                      = Dist(adjacency_matrix, e.node, e.vehicle.destination_node) - 1
                 /\ (e.outcome = "completed" /\ next_vehicle_id = 2)
                      => stats'.total_moves
                           = Dist(adjacency_matrix, e.vehicle.source_node,
                                  e.vehicle.destination_node)]_vars

\* C35: in automatic mode on a network accepted by validate_input and populated by the
\* loader, as long as a vehicle is queued and the shutdown flag is not raised, some
\* vehicle eventually relocates or completes.  The occupancy counters change only by a
\* relocation, so a state in which no queued vehicle has a next hop that admits it stays
\* so for ever: the property requires that no such state is reached.
C35_NoGridlock ==
    (/\ mode = "AUTOMATIC"
     /\ Accepted
     /\ simulation_running
     /\ ~shutdown_requested
     /\ queued_from(nodes, 0) > 0)
    => \E i \in DOMAIN nodes : \E v \in queued_vehicles(nodes[i]) : CouldMove(i, v)

\* C36: a vehicle relocates at most once per sweep of the coordinating loop: the vehicle
\* moved into a node at one visit of the sweep is not the vehicle extracted and moved at
\* the next visit of the same sweep.
C36_OneRelocationPerSweep ==
    [][(NodeVisited /\ sweep_i >= 1) =>
          \A e \in EventsOf(events), f \in EventsOf(events') :
              (e.outcome = "moved" /\ Relocated(f))
              => f.vehicle.vehicle_id # e.vehicle.vehicle_id]_vars

\* a call of execute_single_step, made by the driving loop or directly, returns false
NoMovementCall ==
    \/ StepTaken /\ pc' = "returned"
    \/ /\ call.fn = "execute_single_step"
       /\ call'.calls = call.calls + 1
       /\ ~call'.movement_occurred

\* the vehicles of a waiting queue, whatever their order
waiting_set(node) == {node.waiting_queue[k] : k \in 1..Len(node.waiting_queue)}

\* C37: a call of execute_single_step that reports no movement leaves every node's
\* occupancy counter and every statistic unchanged (step_count is set by the driving
\* loop before the call) and leaves each queue holding the same vehicles as before;
\* only the order of the vehicles inside a waiting queue may differ.
C37_NoMovementChangesOnlyOrder ==
    [][NoMovementCall =>
          /\ [stats' EXCEPT !.step_count = stats.step_count] = stats
          /\ \A i \in DOMAIN nodes :
                /\ nodes'[i].current_vehicles = nodes[i].current_vehicles
                /\ nodes'[i].emergency_queue = nodes[i].emergency_queue
                /\ waiting_set(nodes'[i]) = waiting_set(nodes[i])
                /\ Len(nodes'[i].waiting_queue) = Len(nodes[i].waiting_queue)]_vars

\* a call that reported no movement has pushed a denied Regular vehicle back behind
\* another one: the order of that waiting queue has changed
C37_Witness ==
    /\ NoMovementReported
    /\ \E e \in EventsOf(events) :
          /\ e.outcome = "blocked"
          /\ ~e.is_emergency
          /\ Len(nodes[e.node].waiting_queue) >= 2
          /\ nodes[e.node].waiting_queue[Len(nodes[e.node].waiting_queue)].vehicle_id
                = e.vehicle.vehicle_id

\* the number of vehicles a handler step relocated (moved on or moved into their destination)
relocations(evs) == Cardinality({k \in 1..Len(evs) : Relocated(evs[k])})

\* C38: in every reachable state successful_routes = total_vehicles_processed +
\* emergency_vehicles_processed and total_moves >= successful_routes; total_moves grows
\* by exactly the number of successful relocations, the final hop into a destination
\* included; and no counter ever decreases.
C38_StatisticsConsistent ==
    /\ [](/\ stats.successful_routes
               = stats.total_vehicles_processed + stats.emergency_vehicles_processed
          /\ stats.total_moves >= stats.successful_routes)
    /\ [][stats'.total_moves - stats.total_moves
            = IF StepTaken \/ NodeVisited THEN relocations(events') ELSE 0]_vars
    /\ [][\A c \in DOMAIN stats : stats'[c] >= stats[c]]_vars

\* a Regular and an emergency vehicle have completed their trips, one of them over an
\* intermediate node
C38_Witness ==
    /\ stats.total_vehicles_processed >= 1
    /\ stats.emergency_vehicles_processed >= 1
    /\ stats.total_moves > stats.successful_routes

\* the coordinating loop takes its lock and begins a sweep at node 0
SweepBegins == pc # "auto_sweep" /\ pc' = "auto_sweep"

\* C39: once the shutdown flag has been raised the coordinating loop begins no new sweep:
\* every sweep, and so every extraction of a vehicle in automatic mode, begins while the
\* flag is still down.
C39_NoSweepBeginsAfterShutdown ==
    [][SweepBegins => ~shutdown_requested]_vars

\* every vehicle queued anywhere in the collection ns
all_queued(ns) == UNION {queued_vehicles(ns[i]) : i \in DOMAIN ns}

\* C40: the emergency priority uses the timestamp taken at the vehicle's creation: a
\* vehicle's arrival_time never changes, whether it relocates or is pushed back, and the
\* vehicle extracted from an emergency queue is never one with a later timestamp than
\* another queued vehicle of its class, however long either has been at that node.
C40_PriorityByCreationTime ==
    /\ [][\A v \in all_queued(nodes), w \in all_queued(nodes') :
            v.vehicle_id = w.vehicle_id
            => w.arrival_time = v.arrival_time /\ w.source_node = v.source_node]_vars
    /\ [](\A e \in EventsOf(events) : \A o \in e.emergency_before :
            (e.is_emergency /\ o.type = e.vehicle.type)
            => ~(o.arrival_time < e.vehicle.arrival_time))

\* an emergency vehicle that came from another node is dispatched ahead of a vehicle of
\* its class that was created later at this node and has been queued here since the load
C40_Witness ==
    \E e \in EventsOf(events) : \E o \in e.emergency_before :
        /\ e.is_emergency
        /\ o.type = e.vehicle.type
        /\ e.vehicle.source_node # e.node
        /\ o.source_node = e.node
        /\ e.vehicle.arrival_time < o.arrival_time

====
